---- MODULE Spec2Model ----
(***************************************************************************)
(* BiTranslator front end: the job-synchronisation (polling) machinery,    *)
(* the phase handlers that start backend jobs, and the chapter-range       *)
(* handling of the translate phase.                                        *)
(*                                                                         *)
(* The browser is a single-threaded event loop: every handler runs until   *)
(* its next `await`, so each action below is one such run-to-await slice.  *)
(* The backend handles a request when it is sent; the answer then lives in *)
(* `inflight` for an arbitrary time, until the continuation of the handler *)
(* that awaits it runs.  Answers may be overtaken by one another.          *)
(***************************************************************************)
EXTENDS Integers, Sequences, FiniteSets, Bags, TLC

\* ── Bounds of the model ────────────────────────────────────────────────
MaxRequests == 2      \* requests that clicks and interval callbacks send in one run
NumChapters == 3      \* chapters of the book of project 1
MaxRangeRequests == 4 \* requests sent in one run of the translate phase (SpecRange)

\* ── Program constants ──────────────────────────────────────────────────
Projects == {1, 2}
NoProject == 0        \* state.currentProjectId: null
NoTimer == 0          \* state.pollTimer: null

Statuses ==
  {"uploaded", "analyzing", "analyzed", "generating_strategy", "strategy_generated",
   "translating_sample", "sample_ready", "translating", "stopped", "completed", "error"}

InProgress == {"analyzing", "generating_strategy", "translating_sample", "translating"}

\* the statuses on which a pollStatus tick calls stopPolling()
Terminal == {"analyzed", "strategy_generated", "sample_ready", "stopped", "completed", "error"}

Panels == {"upload", "analysis", "strategy", "sample", "translate", "review", "reader", "done"}
Loadable == {"analysis", "strategy", "sample"}

\* requests that start a backend job, and the status the job runs under
StartOps ==
  {"analyze", "refine_analysis", "gen_strategy", "apply_template", "regen_strategy",
   "translate_sample", "refine_retranslate", "rt_sample", "translate_all", "resume"}

JobStatus(op) ==
  CASE op \in {"analyze", "refine_analysis"} -> "analyzing"
    [] op \in {"gen_strategy", "apply_template", "regen_strategy", "refine_retranslate"} ->
         "generating_strategy"
    [] op \in {"translate_sample", "rt_sample"} -> "translating_sample"
    [] OTHER -> "translating"

SuccessStatus(s) ==
  CASE s = "analyzing" -> "analyzed"
    [] s = "generating_strategy" -> "strategy_generated"
    [] s = "translating_sample" -> "sample_ready"
    [] OTHER -> "completed"

VARIABLES
  currentProjectId,  \* state.currentProjectId
  pollTimer,         \* state.pollTimer: the handle of the status interval, or NoTimer
  timers,            \* the browser's active intervals: records [g, kind]
  gen,               \* number of intervals created so far (the next handle is gen + 1)
  panel,             \* the panel that carries class "active"
  view,              \* per loadable panel: "blank", "loading" or "content"
  reviewIsStopped,   \* state.reviewIsStopped
  reviewProj,        \* the project whose chapters are in state.reviewChapters
  reader,            \* reader panel: [proj, busy (retranslatingChapterId set), btnOff, saw]
  inflight,          \* bag of answers on their way to the handlers that await them
  bstatus,           \* backend: status of each project
  bjob,              \* backend: number of jobs accepted for each project
  bstop,             \* backend: projects whose running translation was asked to stop
  chJob,             \* backend: the retranslation job of the chapter open in the reader
  sent,              \* number of requests that clicks and interval callbacks have sent
  awaitJob,          \* history: the job whose outcome the client is waiting for
  handed,            \* history: handles of the intervals that have handed off
  shown,             \* history: the status observation a tick applied last: [p, r]
  last,              \* history: the handler slice that ran last
  totalChapterCount,   \* state.totalChapterCount
  translateRangeStart, \* state.translateRangeStart (0-based, inclusive)
  translateRangeEnd,   \* state.translateRangeEnd (0-based, inclusive; -1: all)
  reviewRange,       \* #review-range-start and #review-range-end (empty: form not displayed)
  chapters,          \* backend: status of each chapter of project 1, by chapter_index
  job,               \* backend: the chapter range [s, e] of project 1's translation job
  asked,             \* history: the body of the last translate/all request
  typed,             \* history: the input values the startTranslation call of this step read
  steps,             \* classes of the .step elements of #steps-bar, by index in STEPS
  hash,              \* location.hash
  hasTranslatedChapters, \* state.hasTranslatedChapters, as showPanel read it last
  bchunk,            \* backend: chunks done of the chapter that is being translated
  held,              \* the answers a running updateProgressUI call holds: [stage, p, files]
  bar,               \* #progress-fill and #progress-text: [pct, translated, num, den]
  versions,          \* store: the translation versions of the open chapter, number -> content
  live,              \* store: the chapter's translation_version, its current version
  vstage,            \* the answer a running restore or version-list call holds
  cachedVer,         \* translation_version of the chapter in state.readerChapters
  listed,            \* #versions-list: the versions whose row has a restore button
  vlast,             \* history: the last operation of the store: [op, ver, new]
  stored,            \* document store: the highlights of each chapter
  readerCurrentChapterId,  \* state.readerCurrentChapterId
  currentHighlights, \* _currentHighlights
  hload,             \* the answers a running loadReaderChapter call awaits
  pendingHighlightText,    \* _pendingHighlightText
  hlBar,             \* #reader-highlight-bar is shown
  intended,          \* history: the highlights the user has added to and not removed from each chapter
  hlast,             \* history: the last highlight action: [op, ch, text]
  transTitle,        \* ch.translated_title || ch.title of the chapter in the reader
  transText,         \* trans.text of the chapter in the reader
  transHtml,         \* innerHTML of #reader-book-translated-content (empty: placeholder)
  currentAnnotations, \* _currentAnnotations: the tgt strings
  showAnnotations,   \* #reader-show-annotations is checked
  passes,            \* number of times the overlay was redone since the text was rendered
  readerChapters,    \* state.readerChapters: [chapter_type, body_number, title, translated_title]
  rows,              \* the .title-editor-row elements: [ctype, orig, trans]
  numbering,         \* history: the mode the last auto-numbering detected, and the answer to confirm()
  clicks,            \* number of clicks on btn-auto-number
  chapterRow,        \* backend: [status, version, by] of the chapter open in the reader
  rtJob,             \* backend: the retranslation job of that chapter: [id, stage]
  readerVersion,     \* state.readerChapters[state.readerCurrentIdx].translation_version
  retranslatingChapterId, \* state.retranslatingChapterId (NoChapter: null)
  btnDisabled,       \* #btn-reader-retranslate.disabled
  rtPolls,           \* the closures of btn-confirm-retranslate: [versionBefore, sawTranslating, timer]
  rtAnswers,         \* answers on their way to those closures and to the restore handler
  rtReport,          \* history: what a poll of the retranslation reported last
  rtRestores,        \* number of clicks on a ver-btn-restore button
  puts,              \* PUT highlights requests that the backend has not handled yet: [n, list]
  saveSeq,           \* number of calls of _saveHighlights
  putOk              \* history: the calls whose PUT the backend has stored

range == <<totalChapterCount, translateRangeStart, translateRangeEnd, reviewRange,
           chapters, job, asked, typed>>

stepsBar == <<steps, hash, hasTranslatedChapters>>

\* the variables that only the specifications of single functions change
progressBar == <<bchunk, held, bar>>

ledger == <<versions, live, vstage, cachedVer, listed, vlast>>

marks == <<stored, readerCurrentChapterId, currentHighlights, hload, pendingHighlightText,
           hlBar, intended, hlast>>

page == <<transTitle, transText, transHtml, currentAnnotations, showAnnotations, passes>>

editor == <<readerChapters, rows, numbering, clicks>>

retr == <<chapterRow, rtJob, readerVersion, retranslatingChapterId, btnDisabled, rtPolls,
          rtAnswers, rtReport, rtRestores>>

saves == <<puts, saveSeq, putOk>>

aside == <<stepsBar, progressBar, ledger, marks, page, editor, retr, saves>>

vars == <<currentProjectId, pollTimer, timers, gen, panel, view, reviewIsStopped,
          reviewProj, reader, inflight, bstatus, bjob, bstop, chJob, sent,
          awaitJob, handed, shown, last, range, aside>>

polling == <<pollTimer, timers, gen>>
screen == <<panel, view, reviewIsStopped, reviewProj>>
backend == <<bstatus, bjob, bstop, chJob>>

\* ── Messages ───────────────────────────────────────────────────────────
\* k: kind of request; op: the handler that awaits it; p: project in the URL;
\* g: handle of the interval whose tick sent it; st: the answer ("fail" when
\* the request failed); j: number of the job the answer was computed from.
Msg(k, op, p, g, st, j) == [k |-> k, op |-> op, p |-> p, g |-> g, st |-> st, j |-> j]
NoMsg == Msg("-", "-", NoProject, NoTimer, "-", 0)

Awaited == BagToSet(inflight)
Send(m) == inflight' = inflight (+) SetToBag({m})
Receive(m) == inflight' = inflight (-) SetToBag({m})
Replace(m, m2) == inflight' = (inflight (-) SetToBag({m})) (+) SetToBag({m2})

\* a click or an interval callback that sends a request, within the bound
Request == sent < MaxRequests /\ sent' = sent + 1

Event(op, m) == [op |-> op, m |-> m]

\* the job a successful start request or an opened project makes the client wait for
\* the position of an observed status in the backend's history of its project:
\* job j runs (2j), then has ended (2j + 1)
Rank(m) == 2 * m.j + (IF m.st \in InProgress THEN 0 ELSE 1)

NoJob == [p |-> NoProject, j |-> 0]
JobOf(m) == [p |-> m.p, j |-> m.j]

\* ── Polling infrastructure ─────────────────────────────────────────────
\* stopPolling(): clearInterval(state.pollTimer); state.pollTimer = null
StoppedTimers == {t \in timers : t.g # pollTimer}

\* startPolling() / pollStatus() / pollForRetranslate(): stopPolling(), then
\* state.pollTimer = setInterval(callback, 3000)
NewTimer(kind) == [g |-> gen + 1, kind |-> kind]
StartedTimers(kind) == StoppedTimers \cup {NewTimer(kind)}

StopPolling ==
  /\ timers' = StoppedTimers
  /\ pollTimer' = NoTimer
  /\ gen' = gen

StartPolling(kind) ==
  /\ timers' = StartedTimers(kind)
  /\ pollTimer' = gen + 1
  /\ gen' = gen + 1

\* ── Display routines ───────────────────────────────────────────────────
\* showAnalysis / showStrategy / showSample: hide(loading); show(content); showPanel(name)
ShowPhase(name) ==
  /\ view' = [view EXCEPT ![name] = "content"]
  /\ panel' = name
  /\ UNCHANGED <<reviewIsStopped, reviewProj>>

\* showPanel(name); show(loading); hide(content)
ShowLoading(name) ==
  /\ view' = [view EXCEPT ![name] = "loading"]
  /\ panel' = name
  /\ UNCHANGED <<reviewIsStopped, reviewProj>>

\* showPanel("review"); showReview(isStopped)
ShowReview(isStopped) ==
  /\ panel' = "review"
  /\ reviewIsStopped' = isStopped
  /\ reviewProj' = currentProjectId
  /\ UNCHANGED view

\* ── Chapter ranges ─────────────────────────────────────────────────────
\* the value of a number input: <<>> when it is empty, <<n>> when it holds n
Inputs == {<<>>} \cup {<<n>> : n \in 0..NumChapters}
NoInput == <<"-">>

\* parseInt(el.value) || d: NaN (the empty input) and 0 are falsy
ParseIntOr(v, d) == IF v = <<>> THEN d ELSE IF v[1] = 0 THEN d ELSE v[1]

ChapterIndexes == 0..(NumChapters - 1)
NoRange == [s |-> 0, e |-> -1]
\* a translate/all request without a body
NoBody == [s |-> -1, e |-> -1]

\* the range state of a page on which no translation was started yet
RangeInit ==
  /\ translateRangeStart = 0
  /\ translateRangeEnd = -1
  /\ reviewRange = <<<<>>, <<>>>>
  /\ chapters = [i \in ChapterIndexes |-> "pending"]
  /\ job = NoRange
  /\ asked = NoBody
  /\ typed = NoInput

\* showPanel: the steps bar
STEPS == <<"upload", "analysis", "strategy", "sample", "translate", "review", "reader", "done">>

\* STEPS.indexOf(name), 0-based
IndexOf(name) == (CHOOSE i \in 1..Len(STEPS) : STEPS[i] = name) - 1

StepIndexes == {i - 1 : i \in 1..Len(STEPS)}

\* the classes that the forEach of showPanel gives step i when idx is the
\* index of the panel shown and h the value of state.hasTranslatedChapters
StepClassesAnyAhead(i, idx, h) ==
  (IF i < idx THEN {"done"} ELSE {})
    \cup (IF i = idx THEN {"active"} ELSE {})
    \cup (IF i > idx /\ h THEN {"done"} ELSE {})

StepClasses(i, idx, h) ==
  (IF i < idx THEN {"done"} ELSE {})
    \cup (IF i = idx THEN {"active"} ELSE {})
    \cup (IF i > idx /\ i >= IndexOf("review") /\ h THEN {"done"} ELSE {})

NoHash == [p |-> NoProject, name |-> "-"]
RootHash == [p |-> NoProject, name |-> "/"]

\* the page after showPanel("upload")
StepsInit ==
  /\ steps = [i \in StepIndexes |-> StepClasses(i, IndexOf("upload"), FALSE)]
  /\ hash = NoHash
  /\ hasTranslatedChapters = FALSE

\* updateProgressUI: the progress bar
ChunkTotal == 2

NoReport == [cur |-> FALSE, done |-> 0, total |-> 0, translated |-> 0, all |-> 0]
NoFiles == <<>>
NoHeld == [stage |-> "none", p |-> NoReport, files |-> NoFiles]

\* no translation has reported progress yet
ProgressIdle ==
  /\ bchunk = 0
  /\ held = NoHeld
  /\ bar = [pct |-> 0, translated |-> 0, num |-> 0, den |-> 1]

\* the version history
MaxVersions == 4

NoStage == [stage |-> "none", ok |-> FALSE, ver |-> 0, vers |-> {}]

\* the chapter has its first translation, and the reader shows it
LedgerInit ==
  /\ versions = [k \in {1} |-> 1]
  /\ live = 1
  /\ vstage = NoStage
  /\ cachedVer = 1
  /\ listed = {}
  /\ vlast = [op |-> "init", ver |-> 0, new |-> 1]

\* the highlights of the reader
ReaderChapters == {1, 2}
Texts == {"dark forest", "forest"}
MaxHighlights == 2
NoText == ""
NoLoad == [stage |-> "none", ch |-> 0, ok |-> FALSE, hl |-> <<>>]

\* chapter 1, which carries one highlight, is open in the reader
MarksInit ==
  /\ stored = [c \in ReaderChapters |-> IF c = 1 THEN <<"forest">> ELSE <<>>]
  /\ readerCurrentChapterId = 1
  /\ currentHighlights = <<"forest">>
  /\ hload = NoLoad
  /\ pendingHighlightText = NoText
  /\ hlBar = FALSE
  /\ intended = [c \in ReaderChapters |-> IF c = 1 THEN {"forest"} ELSE {}]
  /\ hlast = [op |-> "init", ch |-> 0, text |-> NoText]

\* ── Rendering a chapter text, and the overlay of marks ─────────────────
\* A string is the sequence of its characters; a character is a string of
\* length one, and a character outside ASCII is named by its code point.
Upper == <<"A", "B", "C", "D", "E", "F", "G", "H", "I", "J", "K", "L", "M",
           "N", "O", "P", "Q", "R", "S", "T", "U", "V", "W", "X", "Y", "Z">>
Lower == <<"a", "b", "c", "d", "e", "f", "g", "h", "i", "j", "k", "l", "m",
           "n", "o", "p", "q", "r", "s", "t", "u", "v", "w", "x", "y", "z">>
Digits == {"0", "1", "2", "3", "4", "5", "6", "7", "8", "9"}
\* \s of a regular expression, and what trim() removes
WhiteSpace == {" ", "\n", "\t", "\r"}

\* p occurs in s at position k
StartsAt(s, p, k) ==
  /\ k >= 1 /\ k + Len(p) - 1 <= Len(s)
  /\ \A j \in 1..Len(p) : s[k + j - 1] = p[j]

Contains(s, p) == \E k \in 1..Len(s) : StartsAt(s, p, k)

\* s.replace(/p/g, r) for a literal, non-empty p: the matches are taken from
\* left to right and do not overlap
\* the positions of s where p occurs
Occurrences(s, p) == {j \in 1..Len(s) : s[j] = p[1] /\ StartsAt(s, p, j)}

Least(set) == CHOOSE j \in set : \A i \in set : j <= i

\* at is the set of the occurrences of p in s
RECURSIVE ReplaceFrom(_, _, _, _, _)
ReplaceFrom(s, at, n, r, k) ==
  LET ahead == {j \in at : j >= k}
  IN  IF ahead = {} THEN SubSeq(s, k, Len(s))
      ELSE SubSeq(s, k, Least(ahead) - 1) \o r \o ReplaceFrom(s, at, n, r, Least(ahead) + n)

ReplaceAll(s, p, r) == ReplaceFrom(s, Occurrences(s, p), Len(p), r, 1)

\* the number of matches of /p/g in s
RECURSIVE CountFrom(_, _, _)
CountFrom(at, n, k) ==
  LET ahead == {j \in at : j >= k}
  IN  IF ahead = {} THEN 0 ELSE 1 + CountFrom(at, n, Least(ahead) + n)

Count(s, p) == CountFrom(Occurrences(s, p), Len(p), 1)

\* s.trim()
RECURSIVE TrimStart(_)
TrimStart(s) == IF s # <<>> /\ Head(s) \in WhiteSpace THEN TrimStart(Tail(s)) ELSE s

RECURSIVE TrimEnd(_)
TrimEnd(s) ==
  IF s # <<>> /\ s[Len(s)] \in WhiteSpace THEN TrimEnd(SubSeq(s, 1, Len(s) - 1)) ELSE s

Trim(s) == TrimEnd(TrimStart(s))

\* s.toLowerCase()
ToLowerCase(s) ==
  [k \in 1..Len(s) |->
     IF \E i \in 1..26 : Upper[i] = s[k]
       THEN Lower[CHOOSE i \in 1..26 : Upper[i] = s[k]] ELSE s[k]]

\* s.replace(/\s+/g, " ")
Collapsed(s) ==
  SelectSeq([k \in 1..Len(s) |->
               IF s[k] \notin WhiteSpace THEN s[k]
               ELSE IF k > 1 /\ s[k - 1] \in WhiteSpace THEN "" ELSE " "],
            LAMBDA c : c # "")

\* s.replace(/[set]/g, "")
Without(s, set) == SelectSeq(s, LAMBDA c : c \notin set)

\* s.split(/\n\n+/) for min = 2 and s.split(/\n/) for min = 1: the pieces
\* between the runs of at least min newlines (a run is taken whole when min = 2)
RECURSIVE SplitFrom(_, _, _, _)
SplitFrom(s, min, k, piece) ==
  IF k > Len(s) THEN <<piece>>
  ELSE IF min = 1 /\ s[k] = "\n"
    THEN <<piece>> \o SplitFrom(s, min, k + 1, <<>>)
  ELSE IF min = 2 /\ s[k] = "\n" /\ k < Len(s) /\ s[k + 1] = "\n"
    THEN LET run == CHOOSE n \in 2..(Len(s) - k + 1) :
                      /\ \A j \in 0..(n - 1) : s[k + j] = "\n"
                      /\ (k + n > Len(s) \/ s[k + n] # "\n")
         IN  <<piece>> \o SplitFrom(s, min, k + run, <<>>)
  ELSE SplitFrom(s, min, k + 1, Append(piece, s[k]))

\* .map(s => s.trim()).filter(Boolean)
TrimmedNonEmpty(pieces) ==
  SelectSeq([k \in 1..Len(pieces) |-> Trim(pieces[k])], LAMBDA x : x # <<>>)

\* the paragraphs of textToHtml: split on blank lines; one block with line
\* breaks in it is split on the line breaks
Paragraphs(text) ==
  LET blocks == TrimmedNonEmpty(SplitFrom(text, 2, 1, <<>>))
  IN  IF Len(blocks) = 1 /\ "\n" \in {blocks[1][k] : k \in 1..Len(blocks[1])}
        THEN TrimmedNonEmpty(SplitFrom(blocks[1], 1, 1, <<>>))
        ELSE blocks

Amp == <<"&", "a", "m", "p", ";">>
Lt == <<"&", "l", "t", ";">>
Gt == <<"&", "g", "t", ";">>
Br == <<"<", "b", "r", ">">>

\* escape of textToHtml
Escape(s) == ReplaceAll(ReplaceAll(ReplaceAll(s, <<"&">>, Amp), <<"<">>, Lt), <<">">>, Gt)

\* normalize of textToHtml
Normalize(s) == ToLowerCase(Trim(Collapsed(s)))

\* the characters of [—–\-:：·.。,，\s]
Decorations == {"U+2014", "U+2013", "-", ":", "U+FF1A", "U+00B7", ".", "U+3002", ",",
                "U+FF0C"} \cup WhiteSpace

StripDeco(s) == Without(s, Decorations)

\* the first paragraph repeats the title: the test of textToHtml
RepeatsTitleVerbatimOnly(para, titleNorm) == para = titleNorm

RepeatsTitle(para, titleNorm) ==
  LET paraNorm == Normalize(para)
      maxTitleLen == IF Len(titleNorm) * 2 > 120 THEN Len(titleNorm) * 2 ELSE 120
  IN  /\ Len(paraNorm) <= maxTitleLen
      /\ \/ paraNorm = titleNorm
         \/ StripDeco(paraNorm) = StripDeco(titleNorm)

\* /^[\s*\-=~·•—]{3,}$/
SeparatorChars == {"*", "-", "=", "~", "U+00B7", "U+2022", "U+2014"} \cup WhiteSpace

IsSeparator(s) == Len(s) >= 3 /\ \A k \in 1..Len(s) : s[k] \in SeparatorChars

\* word, then \s+, then \d, at the start of s
WordSpacesDigit(s, word) ==
  /\ StartsAt(s, word, 1)
  /\ \E n \in 1..Len(s) :
       /\ \A j \in 1..n : Len(word) + j <= Len(s) /\ s[Len(word) + j] \in WhiteSpace
       /\ Len(word) + n + 1 <= Len(s) /\ s[Len(word) + n + 1] \in Digits

\* /^(第.{1,6}[章节回部篇]|Chapter\s+\d|Part\s+\d|PART\s+\d|\d+\.)/
IsHeading(s) ==
  \/ /\ s # <<>> /\ s[1] = "U+7B2C"
     /\ \E n \in 1..6 :
          /\ n + 2 <= Len(s)
          /\ \A j \in 2..(n + 1) : s[j] \notin {"\n", "\r"}
          /\ s[n + 2] \in {"U+7AE0", "U+8282", "U+56DE", "U+90E8", "U+7BC7"}
  \/ WordSpacesDigit(s, <<"C", "h", "a", "p", "t", "e", "r">>)
  \/ WordSpacesDigit(s, <<"P", "a", "r", "t">>)
  \/ WordSpacesDigit(s, <<"P", "A", "R", "T">>)
  \/ \E n \in 1..Len(s) :
       /\ \A j \in 1..n : s[j] \in Digits
       /\ n + 1 <= Len(s) /\ s[n + 1] = "."

H1Open == <<"<", "h", "1", " ", "c", "l", "a", "s", "s", "=", "\"", "c", "h", "a", "p", "t", "e", "r", "-", "t", "i", "t", "l", "e", "\"", ">">>
H1Close == <<"<", "/", "h", "1", ">">>
H2Open == <<"<", "h", "2", ">">>
H2Close == <<"<", "/", "h", "2", ">">>
POpen == <<"<", "p", ">">>
PClose == <<"<", "/", "p", ">">>
SeparatorP == <<"<", "p", " ", "c", "l", "a", "s", "s", "=", "\"", "s", "e", "p", "a", "r", "a", "t", "o", "r", "\"", ">", "*", " ", "*", " ", "*", "<", "/", "p", ">">>

\* the segment of one paragraph: a separator, a heading or a paragraph
Segment(trimmed) ==
  LET escaped == ReplaceAll(Escape(trimmed), <<"\n">>, Br)
  IN  IF IsSeparator(trimmed) THEN SeparatorP
      ELSE IF Len(trimmed) < 60 /\ IsHeading(trimmed) THEN H2Open \o escaped \o H2Close
      ELSE POpen \o escaped \o PClose

RECURSIVE Segments(_, _)
Segments(paragraphs, k) ==
  IF k > Len(paragraphs) THEN <<>>
  ELSE Segment(paragraphs[k]) \o Segments(paragraphs, k + 1)

\* textToHtml(text, chapterTitle); the empty title stands for no title
TextToHtml(text, chapterTitle) ==
  LET paragraphs == Paragraphs(text)
      titleNorm == IF chapterTitle # <<>> THEN Normalize(chapterTitle) ELSE <<>>
      skip == /\ paragraphs # <<>> /\ titleNorm # <<>>
              /\ RepeatsTitle(paragraphs[1], titleNorm)
  IN  (IF chapterTitle # <<>> THEN H1Open \o Escape(chapterTitle) \o H1Close ELSE <<>>)
        \o Segments(paragraphs, IF skip THEN 2 ELSE 1)


\* ── The marks of highlights and annotations over the rendered text ─────
Quot == <<"&", "q", "u", "o", "t", ";">>
UserMark == <<"<", "m", "a", "r", "k", " ", "c", "l", "a", "s", "s", "=", "\"", "u", "s", "e", "r", "-", "h", "i", "g", "h", "l", "i", "g", "h", "t">>
UserMarkIdx == <<"\"", " ", "d", "a", "t", "a", "-", "h", "l", "-", "i", "d", "x", "=", "\"">>
AnnMark == <<"<", "m", "a", "r", "k", " ", "c", "l", "a", "s", "s", "=", "\"", "a", "n", "n", "-", "h", "i", "g", "h", "l", "i", "g", "h", "t">>
AnnMarkIdx == <<"\"", " ", "d", "a", "t", "a", "-", "a", "n", "n", "-", "i", "d", "x", "=", "\"">>
MarkOpen == <<"<", "m", "a", "r", "k", " ">>
MarkEnd == <<"\"", ">">>
MarkClose == <<"<", "/", "m", "a", "r", "k", ">">>

\* the decimal digits of a list index below 10
IndexString(i) == <<<<"0", "1", "2", "3", "4", "5", "6", "7", "8", "9">>[i + 1]>>

\* the opening tags: <mark class="user-highlight" data-hl-idx="i"> of a
\* highlight without a note, and <mark class="ann-highlight" data-ann-idx="i">
UserMarkOpen(i) == UserMark \o UserMarkIdx \o IndexString(i) \o MarkEnd
AnnMarkOpen(i) == AnnMark \o AnnMarkIdx \o IndexString(i) \o MarkEnd

\* if (!text || text.length < 2) continue
SkippedOnlyEmpty(str) == str = <<>>

Skipped(str) == Len(str) < 2

\* the loop of _applyHighlights (kind "hl") and of _highlightAnnotatedText
\* (kind "ann") over the string html, from the list element at index i: the
\* pattern is the string with its special characters escaped, so each
\* occurrence of the string in html, tags and entities included, is wrapped
RECURSIVE Marked(_, _, _, _)
Marked(html, list, kind, i) ==
  IF i >= Len(list) THEN html
  ELSE LET str == list[i + 1]
           open == IF kind = "hl" THEN UserMarkOpen(i) ELSE AnnMarkOpen(i)
       IN  Marked(IF Skipped(str) THEN html
                    ELSE ReplaceAll(html, str, open \o str \o MarkClose),
                  list, kind, i + 1)

\* what the innerHTML getter returns after the string s was assigned: the
\* parser takes an ampersand that starts no character reference as text,
\* and the serializer writes it as &amp;
Serialized(s) ==
  ReplaceFrom(s, {j \in 1..Len(s) :
                    s[j] = "&" /\ ~ \E ref \in {Amp, Lt, Gt, Quot} : StartsAt(s, ref, j)},
              1, Amp, 1)


\* querySelectorAll(selector).forEach(m => m.replaceWith(createTextNode(
\* m.textContent))): each mark whose opening tag starts with prefix gives way
\* to its text, the tags inside it are gone with it; tags is the set of the
\* positions of "<" in s, ends that of ">"
RECURSIVE UnwrapFrom(_, _, _, _, _, _)
UnwrapFrom(s, tags, ends, prefix, k, depth) ==
  LET ahead == {j \in tags : j >= k}
  IN  IF ahead = {} THEN SubSeq(s, k, Len(s))
      ELSE LET t == Least(ahead)
               e == Least({j \in ends : j > t} \cup {Len(s)})
           IN  SubSeq(s, k, t - 1) \o
               (IF depth = 0
                  THEN IF StartsAt(s, prefix, t)
                         THEN UnwrapFrom(s, tags, ends, prefix, e + 1, 1)
                         ELSE SubSeq(s, t, e) \o UnwrapFrom(s, tags, ends, prefix, e + 1, 0)
                ELSE IF StartsAt(s, MarkClose, t)
                  THEN UnwrapFrom(s, tags, ends, prefix, e + 1, depth - 1)
                ELSE IF StartsAt(s, MarkOpen, t)
                  THEN UnwrapFrom(s, tags, ends, prefix, e + 1, depth + 1)
                ELSE UnwrapFrom(s, tags, ends, prefix, e + 1, depth))

Unwrapped(s, prefix) ==
  UnwrapFrom(s, {j \in 1..Len(s) : s[j] = "<"}, {j \in 1..Len(s) : s[j] = ">"}, prefix, 1, 0)

\* _applyHighlights(transEl, highlights) on the content html
ApplyHighlights(html, highlights) ==
  IF highlights = <<>> THEN html ELSE Serialized(Marked(html, highlights, "hl", 0))

\* _highlightAnnotatedText(transEl, annotations) on the content html
HighlightAnnotatedText(html, annotations) ==
  IF annotations = <<>> THEN html ELSE Serialized(Marked(html, annotations, "ann", 0))

\* the overlay as loadReaderChapter and _refreshHighlightsDisplay end: the
\* highlights, then the annotations when the box is checked
Overlaid(html, highlights, annotations, checked) ==
  LET marked == ApplyHighlights(html, highlights)
  IN  IF checked /\ annotations # <<>>
        THEN HighlightAnnotatedText(marked, annotations) ELSE marked

\* _refreshHighlightsDisplay()
RefreshHighlightsDisplay(html, highlights, annotations, checked) ==
  Overlaid(Unwrapped(html, UserMark), highlights, annotations, checked)

\* the translated title and text of the chapter in the reader
Title == <<"D", "u", "s", "k">>
Translation == <<"d", "a", "r", "k", " ", "f", "o", "r", "e", "s", "t", " ", "&", " ", "a", "m", "p">>
\* the strings of highlights: selections of the text, and an imported one
HighlightTexts == {<<"d", "a", "r", "k", " ", "f", "o", "r", "e", "s", "t">>, <<"f", "o", "r", "e", "s", "t">>, <<"a", "m", "p">>, <<"d">>,
                   <<"d", "a", "r", "k">>}
\* the lists of annotations of the chapter
AnnotationLists == {<<>>, <<<<"f", "o", "r", "e", "s", "t">>>>, <<<<"d">>, <<"f", "o", "r", "e", "s", "t">>>>,
                    <<<<"f", "o", "r", "e", "s", "t">>, <<"d">>>>, <<<<>>, <<"f", "o", "r", "e", "s", "t">>>>}
\* the lists of highlights that the store holds for the chapter
StoredLists == {<<>>, <<<<"d", "a", "r", "k", " ", "f", "o", "r", "e", "s", "t">>>>, <<<<"a", "m", "p">>>>,
                <<<<"d">>, <<"f", "o", "r", "e", "s", "t">>>>, <<<<"f", "o", "r", "e", "s", "t">>, <<"d">>>>}
MaxPasses == 2

ListsOf(set, n) == UNION {[1..m -> set] : m \in 0..n}

PageInit ==
  /\ transTitle = <<>>
  /\ transText = <<>>
  /\ transHtml = <<>>
  /\ currentAnnotations = <<>>
  /\ showAnnotations = TRUE
  /\ passes = 0


\* ── The title editor and its numbering ─────────────────────────────────
\* the number of characters of set that s has in a row from position k
Run(s, k, set) ==
  LET stop == {j \in k..Len(s) : s[j] \notin set}
  IN  IF k > Len(s) THEN 0 ELSE IF stop = {} THEN Len(s) - k + 1 ELSE Least(stop) - k

\* [\s.:：\-–—]
NumberSeparators == WhiteSpace \cup {".", ":", "U+FF1A", "-", "U+2013", "U+2014"}
\* [IVXLCDM], and the same under the flag i
Roman == {"I", "V", "X", "L", "C", "D", "M"}
RomanAnyCase == Roman \cup {"i", "v", "x", "l", "c", "d", "m"}
\* [一二三四五六七八九十百千\d]
HanNumerals == Digits \cup {"U+4E00", "U+4E8C", "U+4E09", "U+56DB", "U+4E94", "U+516D", "U+4E03", "U+516B", "U+4E5D", "U+5341", "U+767E", "U+5343"}
\* [章节篇卷部回]
HanUnits == {"U+7AE0", "U+8282", "U+7BC7", "U+5377", "U+90E8", "U+56DE"}

\* _NUM_PATTERNS, in their order, the alternatives of the eighth pattern one
\* by one: "word" is /^(word\s+[numerals]+[\s.:：\-–—]*)/i, "bare" is
\* /^([numerals]+[\s.:：\-–—]+)/, "han" is
\* /^(第\s*[一二三四五六七八九十百千\d]+\s*[章节篇卷部回][\s.:：\-–—]*)/
NumPatterns ==
  <<[kind |-> "word", word |-> <<"c", "h", "a", "p", "t", "e", "r">>, numerals |-> Digits],
    [kind |-> "word", word |-> <<"k", "a", "p", "i", "t", "e", "l">>, numerals |-> Digits],
    [kind |-> "word", word |-> <<"c", "h", "a", "p", "i", "t", "r", "e">>, numerals |-> Digits],
    [kind |-> "word", word |-> <<"t", "e", "i", "l">>, numerals |-> Digits],
    [kind |-> "word", word |-> <<"p", "a", "r", "t">>, numerals |-> Digits],
    [kind |-> "word", word |-> <<"b", "o", "o", "k">>, numerals |-> Digits],
    [kind |-> "han", word |-> <<"U+7B2C">>, numerals |-> HanNumerals],
    [kind |-> "word", word |-> <<"c", "h", "a", "p", "t", "e", "r">>, numerals |-> RomanAnyCase],
    [kind |-> "word", word |-> <<"k", "a", "p", "i", "t", "e", "l">>, numerals |-> RomanAnyCase],
    [kind |-> "word", word |-> <<"c", "h", "a", "p", "i", "t", "r", "e">>, numerals |-> RomanAnyCase],
    [kind |-> "word", word |-> <<"p", "a", "r", "t">>, numerals |-> RomanAnyCase],
    [kind |-> "word", word |-> <<"t", "e", "i", "l">>, numerals |-> RomanAnyCase],
    [kind |-> "word", word |-> <<"p", "a", "r", "t", "i", "e">>, numerals |-> RomanAnyCase],
    [kind |-> "word", word |-> <<"b", "o", "o", "k">>, numerals |-> RomanAnyCase],
    [kind |-> "word", word |-> <<"v", "o", "l", "u", "m", "e">>, numerals |-> RomanAnyCase],
    [kind |-> "bare", word |-> <<>>, numerals |-> Digits],
    [kind |-> "bare", word |-> <<>>, numerals |-> Roman]>>

\* the length of the match of the pattern in s, 0 when there is none (low is
\* s in lower case)
MatchLength(s, low, pat) ==
  LET w == Len(pat.word)
      ws == Run(s, w + 1, WhiteSpace)
      n == Run(s, w + ws + 1, pat.numerals)
      ws2 == Run(s, w + ws + n + 1, WhiteSpace)
      end == w + ws + n + (IF pat.kind = "han" THEN ws2 + 1 ELSE 0)
      sp == Run(s, end + 1, NumberSeparators)
  IN  IF ~StartsAt(IF pat.kind = "word" THEN low ELSE s, pat.word, 1) \/ n = 0 THEN 0
      ELSE IF pat.kind = "word" THEN (IF ws >= 1 THEN end + sp ELSE 0)
      ELSE IF pat.kind = "bare" THEN (IF sp >= 1 THEN end + sp ELSE 0)
      ELSE IF end <= Len(s) /\ s[end] \in HanUnits THEN end + sp ELSE 0

\* detectNumberPrefix(title): the prefix that the first matching pattern
\* matches in the trimmed title; the empty string stands for null
DetectNumberPrefix(title) ==
  LET s == Trim(title)
      low == ToLowerCase(s)
      hit == {a \in 1..Len(NumPatterns) : MatchLength(s, low, NumPatterns[a]) > 0}
  IN  IF title = <<>> \/ hit = {} THEN <<>>
      ELSE SubSeq(s, 1, MatchLength(s, low, NumPatterns[Least(hit)]))

\* stripNumberPrefix(title)
StripNumberPrefix(title) ==
  LET p == DetectNumberPrefix(title)
  IN  IF p = <<>> THEN title ELSE Trim(SubSeq(Trim(title), Len(p) + 1, Len(Trim(title))))

\* the languages of the prefixes: what lang starts with, the two names it may
\* include, and the prefix before and after the number

PrefixLanguages ==
  <<[code |-> <<"z", "h">>, name |-> <<"c", "h", "i", "n", "e", "s", "e">>, native |-> <<"U+4E2D", "U+6587">>,
     chapter |-> <<<<"U+7B2C">>, <<"U+7AE0", "U+FF1A">>>>, part |-> <<<<"U+7B2C">>, <<"U+90E8", "U+FF1A">>>>],
    [code |-> <<"j", "a">>, name |-> <<"j", "a", "p", "a", "n", "e", "s", "e">>, native |-> <<"U+65E5">>,
     chapter |-> <<<<"U+7B2C">>, <<"U+7AE0", "U+FF1A">>>>, part |-> <<<<"U+7B2C">>, <<"U+90E8", "U+FF1A">>>>],
    [code |-> <<"k", "o">>, name |-> <<"k", "o", "r", "e", "a", "n">>, native |-> <<"U+97E9">>,
     chapter |-> <<<<"U+C81C">>, <<"U+C7A5", ":", " ">>>>, part |-> <<<<"U+C81C">>, <<"U+BD80", ":", " ">>>>],
    [code |-> <<"d", "e">>, name |-> <<"g", "e", "r", "m", "a", "n">>, native |-> <<"U+5FB7">>,
     chapter |-> <<<<"K", "a", "p", "i", "t", "e", "l", " ">>, <<":", " ">>>>, part |-> <<<<"T", "e", "i", "l", " ">>, <<":", " ">>>>],
    [code |-> <<"f", "r">>, name |-> <<"f", "r", "e", "n", "c", "h">>, native |-> <<"U+6CD5">>,
     chapter |-> <<<<"C", "h", "a", "p", "i", "t", "r", "e", " ">>, <<" ", ":", " ">>>>, part |-> <<<<"P", "a", "r", "t", "i", "e", " ">>, <<" ", ":", " ">>>>],
    [code |-> <<"e", "s">>, name |-> <<"s", "p", "a", "n", "i", "s", "h">>, native |-> <<"U+897F", "U+73ED", "U+7259">>,
     chapter |-> <<<<"C", "a", "p", "U+00ED", "t", "u", "l", "o", " ">>, <<":", " ">>>>, part |-> <<<<"P", "a", "r", "t", "e", " ">>, <<":", " ">>>>],
    [code |-> <<"i", "t">>, name |-> <<"i", "t", "a", "l", "i", "a", "n">>, native |-> <<"U+610F">>,
     chapter |-> <<<<"C", "a", "p", "i", "t", "o", "l", "o", " ">>, <<":", " ">>>>, part |-> <<<<"P", "a", "r", "t", "e", " ">>, <<":", " ">>>>],
    [code |-> <<"r", "u">>, name |-> <<"r", "u", "s", "s", "i", "a", "n">>, native |-> <<"U+4FC4">>,
     chapter |-> <<<<"U+0413", "U+043B", "U+0430", "U+0432", "U+0430", " ">>, <<":", " ">>>>, part |-> <<<<"U+0427", "U+0430", "U+0441", "U+0442", "U+044C", " ">>, <<":", " ">>>>]>>

\* the branch of getChapterPrefix and getPartPrefix that the language takes,
\* 0 for the last return
LanguageBranch(lang) ==
  LET l == ToLowerCase(lang)
      hit == {a \in 1..Len(PrefixLanguages) :
                \/ StartsAt(l, PrefixLanguages[a].code, 1)
                \/ Contains(l, PrefixLanguages[a].name)
                \/ Contains(l, PrefixLanguages[a].native)}
  IN  IF hit = {} THEN 0 ELSE Least(hit)

\* getChapterPrefix(lang, num), for a number below 10
GetChapterPrefix(lang, num) ==
  LET b == LanguageBranch(lang)
  IN  IF b = 0 THEN <<"C", "h", "a", "p", "t", "e", "r", " ">> \o IndexString(num) \o <<":", " ">>
      ELSE PrefixLanguages[b].chapter[1] \o IndexString(num) \o PrefixLanguages[b].chapter[2]

\* getPartPrefix(lang, num), for a number below 10
GetPartPrefix(lang, num) ==
  LET b == LanguageBranch(lang)
  IN  IF b = 0 THEN <<"P", "a", "r", "t", " ">> \o IndexString(num) \o <<":", " ">>
      ELSE PrefixLanguages[b].part[1] \o IndexString(num) \o PrefixLanguages[b].part[2]

\* body_number is null; chapter_type is missing
NoNumber == 0
NoType == "none"
ChapterTypes == {"frontmatter", "part", "chapter", "backmatter"}

\* ch.chapter_type || "chapter"
TypeOf(ch) == IF ch.chapter_type = NoType THEN "chapter" ELSE ch.chapter_type

\* ch.body_number <= prevNum
RestartsBelow(num, prevNum) == num < prevNum

Restarts(num, prevNum) == num <= prevNum

\* the loop of the btn-auto-number handler from index i (1-based here, so
\* no part seen is 0): TRUE when it reaches mode = "per_part"
RECURSIVE DetectsPerPart(_, _, _, _, _)
DetectsPerPart(chs, i, prevNum, prevPartIdx, lastPartIdx) ==
  IF i > Len(chs) THEN FALSE
  ELSE IF TypeOf(chs[i]) = "part" THEN DetectsPerPart(chs, i + 1, prevNum, prevPartIdx, i)
  ELSE IF TypeOf(chs[i]) = "chapter" /\ chs[i].body_number # NoNumber
    THEN IF /\ prevNum # NoNumber /\ lastPartIdx > prevPartIdx /\ lastPartIdx >= 1
            /\ Restarts(chs[i].body_number, prevNum)
           THEN TRUE
           ELSE DetectsPerPart(chs, i + 1, chs[i].body_number, lastPartIdx, lastPartIdx)
  ELSE DetectsPerPart(chs, i + 1, prevNum, prevPartIdx, lastPartIdx)

DetectedMode(chs) == IF DetectsPerPart(chs, 1, NoNumber, 0, 0) THEN "per_part" ELSE "continuous"

\* partNum and chapterNum as rows.forEach has them after the row at index k
RECURSIVE PartNum(_, _)
PartNum(rs, k) ==
  IF k = 0 THEN 0 ELSE PartNum(rs, k - 1) + (IF rs[k].ctype = "part" THEN 1 ELSE 0)

\* the counter is not set back at a part
ChapterNumNeverReset(rs, k, mode) ==
  Cardinality({j \in 1..k : rs[j].ctype = "chapter"})

\* the counter is set back at every part
ChapterNumAlwaysReset(rs, k, mode) ==
  Cardinality({j \in 1..k : rs[j].ctype = "chapter" /\ \A i \in j..k : rs[i].ctype # "part"})

RECURSIVE ChapterNum(_, _, _)
ChapterNum(rs, k, mode) ==
  IF k = 0 THEN 0
  ELSE IF rs[k].ctype = "part"
    THEN (IF mode = "per_part" THEN 0 ELSE ChapterNum(rs, k - 1, mode))
  ELSE IF rs[k].ctype = "chapter" THEN ChapterNum(rs, k - 1, mode) + 1
  ELSE ChapterNum(rs, k - 1, mode)

\* the row at index k after rows.forEach
Numbered(rs, k, mode, tgtLang) ==
  LET en == <<"e", "n">>
      row == rs[k]
  IN  IF row.ctype = "part"
        THEN [row EXCEPT
                !.orig = GetPartPrefix(en, PartNum(rs, k)) \o StripNumberPrefix(row.orig),
                !.trans = IF Trim(row.trans) # <<>>
                            THEN GetPartPrefix(tgtLang, PartNum(rs, k))
                                   \o StripNumberPrefix(row.trans)
                            ELSE row.trans]
      ELSE IF row.ctype = "chapter"
        THEN [row EXCEPT
                !.orig = GetChapterPrefix(en, ChapterNum(rs, k, mode))
                           \o StripNumberPrefix(row.orig),
                !.trans = IF Trim(row.trans) # <<>>
                            THEN GetChapterPrefix(tgtLang, ChapterNum(rs, k, mode))
                                   \o StripNumberPrefix(row.trans)
                            ELSE row.trans]
      ELSE row

\* the chapters that the books are made of
ChapterKinds ==
  {[chapter_type |-> "frontmatter", body_number |-> NoNumber,
    title |-> <<"P", "r", "o", "l", "o", "g", "u", "e">>,
    translated_title |-> <<>>],
   [chapter_type |-> "part", body_number |-> 1,
    title |-> <<"P", "a", "r", "t", " ", "1", ":", " ", "D", "a", "w", "n">>,
    translated_title |-> <<"T", "e", "i", "l", " ", "1", ":", " ", "D", "a", "w", "n">>],
   [chapter_type |-> "chapter", body_number |-> 1,
    title |-> <<"C", "h", "a", "p", "t", "e", "r", " ", "1", ":", " ", "S", "t", "o", "r", "m">>,
    translated_title |-> <<"S", "t", "o", "r", "m">>],
   [chapter_type |-> "chapter", body_number |-> 2,
    title |-> <<"2", ".", " ", "C", "a", "l", "m">>,
    translated_title |-> <<>>],
   [chapter_type |-> NoType, body_number |-> NoNumber,
    title |-> <<"S", "t", "o", "r", "m">>,
    translated_title |-> <<"K", "a", "p", "i", "t", "e", "l", " ", "3", ":", " ", "S", "t", "o", "r", "m">>],
   [chapter_type |-> "backmatter", body_number |-> NoNumber,
    title |-> <<"N", "o", "t", "e", "s">>,
    translated_title |-> <<"N", "o", "t", "e", "s">>]}
TargetLanguages == {<<"e", "n">>, <<"G", "e", "r", "m", "a", "n">>, <<"e", "s">>}
MaxRows == 3
MaxClicks == 2
NoNumbering == [mode |-> "none", confirmed |-> FALSE]

EditorInit ==
  /\ readerChapters = <<>>
  /\ rows = <<>>
  /\ numbering = NoNumbering
  /\ clicks = 0


\* ── Reader: the closures of btn-confirm-retranslate ────────────────────
MaxRetranslations == 2  \* clicks on btn-confirm-retranslate
MaxRestores == 1        \* clicks on a ver-btn-restore button
MaxInFlight == 2        \* answers to the retranslation interval that wait at one time
FirstVersions == 2       \* versions the chapter has when the reader opens it
NoChapter == 0
NoClosure == 0
NoRtJob == [id |-> NoClosure, stage |-> "none"]
NoRtReport == [id |-> NoClosure, result |-> "none", status |-> "none", version |-> 0, by |-> NoClosure]

\* the reader shows a translated chapter whose list entry is up to date
RetrInit ==
  /\ chapterRow = [status |-> "translated", version |-> FirstVersions, by |-> NoClosure]
  /\ rtJob = NoRtJob
  /\ readerVersion = FirstVersions
  /\ retranslatingChapterId = NoChapter
  /\ btnDisabled = FALSE
  /\ rtPolls = <<>>
  /\ rtAnswers = {}
  /\ rtReport = NoRtReport
  /\ rtRestores = 0

\* ── Reader: the PUTs of _saveHighlights ────────────────────────────────
MaxSaves == 3           \* calls of _saveHighlights

SavesInit ==
  /\ puts = {}
  /\ saveSeq = 0
  /\ putOk = {}

AsideInit ==
  /\ StepsInit /\ ProgressIdle /\ LedgerInit /\ MarksInit /\ PageInit /\ EditorInit
  /\ RetrInit /\ SavesInit

\* ── Init ───────────────────────────────────────────────────────────────
\* the panel openProject shows for a project it finds with status st
PanelOf(st) ==
  CASE st = "analyzed" -> "analysis"
    [] st = "strategy_generated" -> "strategy"
    [] st = "sample_ready" -> "sample"
    [] st = "translating" -> "translate"
    [] st \in {"stopped", "completed"} -> "review"
    [] OTHER -> "upload"

\* the page has loaded and either no project is open (open = NoProject), or
\* openProject(open) has run to its end; status1 and status2 are the statuses
\* of projects 1 and 2
Loaded(open, status1, status2) ==
  LET st == IF open = 2 THEN status2 ELSE status1
      polled == open # NoProject /\ st = "translating"
  IN  /\ currentProjectId = open
      /\ bstatus = [p \in Projects |-> IF p = 1 THEN status1 ELSE status2]
      /\ panel = IF open = NoProject THEN "upload" ELSE PanelOf(st)
      /\ view = [x \in Loadable |->
                   IF open # NoProject /\ x = PanelOf(st) THEN "content" ELSE "blank"]
      /\ reviewIsStopped = (open # NoProject /\ st = "stopped")
      /\ reviewProj = IF open # NoProject /\ PanelOf(st) = "review" THEN open ELSE NoProject
      /\ pollTimer = IF polled THEN 1 ELSE NoTimer
      /\ timers = IF polled THEN {[g |-> 1, kind |-> "status"]} ELSE {}
      /\ gen = IF polled THEN 1 ELSE 0
      /\ awaitJob = IF polled THEN [p |-> open, j |-> 0] ELSE NoJob
      /\ reader = [proj |-> NoProject, busy |-> FALSE, btnOff |-> FALSE, saw |-> FALSE]
      /\ inflight = EmptyBag
      /\ bjob = [p \in Projects |-> 0]
      /\ bstop = {}
      /\ chJob = "none"
      /\ sent = 0
      /\ handed = {}
      /\ shown = [p |-> NoProject, r |-> 0]
      /\ last = Event("init", NoMsg)

Init ==
  /\ totalChapterCount = 0
  /\ RangeInit
  /\ AsideInit
  /\ \/ Loaded(NoProject, "uploaded", "translating")
     \/ \E st \in {"analyzed", "strategy_generated", "sample_ready", "stopped"} :
          Loaded(1, st, "translating")
     \/ Loaded(1, "strategy_generated", "analyzed")
     \/ Loaded(2, "stopped", "translating")

\* ── Backend (Job Backend contract) ─────────────────────────────────────
\* GET /api/projects/{id}: the project's status, unless the request fails
StatusAnswer(k, op, p, g, ok) ==
  IF ok /\ p \in Projects THEN Msg(k, op, p, g, bstatus[p], bjob[p])
                          ELSE Msg(k, op, p, g, "fail", 0)

\* a job-starting POST is accepted only for a project with no job running
Accepts(p) == p \in Projects /\ bstatus[p] \notin InProgress

BackendStart(op, p, ok) ==
  IF ok THEN /\ bstatus' = [bstatus EXCEPT ![p] = JobStatus(op)]
             /\ bjob' = [bjob EXCEPT ![p] = @ + 1]
             /\ bstop' = bstop \ {p}
             /\ chJob' = chJob
        ELSE UNCHANGED backend

StartAnswer(op, p, ok) ==
  IF ok THEN Msg("post", op, p, NoTimer, "ok", bjob[p] + 1)
        ELSE Msg("post", op, p, NoTimer, "fail", 0)

\* a running job ends: with its success status, with error, or (a translation
\* that was asked to stop) with stopped
BackendFinish(p) ==
  /\ bstatus[p] \in InProgress
  /\ \E s \in {SuccessStatus(bstatus[p]), "error", "stopped"} :
       /\ s = "stopped" => bstatus[p] = "translating" /\ p \in bstop
       /\ bstatus' = [bstatus EXCEPT ![p] = s]
  /\ bstop' = bstop \ {p}
  /\ UNCHANGED <<currentProjectId, polling, screen, reader, inflight, bjob, chJob,
                 sent, awaitJob, handed, shown, last, range, aside>>

\* ── Status polling: one tick of the pollStatus callback ────────────────
\* if (!currentProjectId) return; const project = await apiJson(`/api/projects/${id}`)
TickFire(t) ==
  /\ t \in timers /\ t.kind = "status"
  /\ currentProjectId # NoProject
  /\ Request
  /\ \E ok \in BOOLEAN : Send(StatusAnswer("tick", "poll", currentProjectId, t.g, ok))
  /\ last' = Event("fire", NoMsg)
  /\ UNCHANGED <<range, aside>>
  /\ UNCHANGED <<currentProjectId, polling, screen, reader, backend, awaitJob, handed, shown>>

\* a faulty dispatch that goes on polling after the status "error"
PollDispatchKeepsOnError(st) ==
  CASE st = "analyzed" -> StopPolling /\ ShowPhase("analysis")
    [] st = "strategy_generated" -> StopPolling /\ ShowPhase("strategy")
    [] st = "sample_ready" -> StopPolling /\ ShowPhase("sample")
    [] st = "translating" ->
         UNCHANGED polling /\ panel' = "translate" /\ UNCHANGED <<view, reviewIsStopped, reviewProj>>
    [] st = "stopped" -> StopPolling /\ ShowReview(TRUE)
    [] st = "completed" -> StopPolling /\ ShowReview(FALSE)
    [] OTHER -> UNCHANGED <<polling, screen>>

\* what the tick does with the status it received (after await loadProjects(),
\* which catches its own failures)
PollDispatch(st) ==
  CASE st = "analyzed" -> StopPolling /\ ShowPhase("analysis")
    [] st = "strategy_generated" -> StopPolling /\ ShowPhase("strategy")
    [] st = "sample_ready" -> StopPolling /\ ShowPhase("sample")
    [] st = "translating" ->
         UNCHANGED polling /\ panel' = "translate" /\ UNCHANGED <<view, reviewIsStopped, reviewProj>>
    [] st = "stopped" -> StopPolling /\ ShowReview(TRUE)
    [] st = "completed" -> StopPolling /\ ShowReview(FALSE)
    [] st = "error" -> StopPolling /\ UNCHANGED screen
    [] OTHER -> UNCHANGED <<polling, screen>>

\* a faulty tick whose catch block stops polling
TickApplyStopsOnFailure(m) ==
  /\ m \in Awaited /\ m.k = "tick"
  /\ Receive(m)
  /\ IF m.st = "fail"
       THEN StopPolling /\ UNCHANGED <<screen, handed, shown>>
       ELSE /\ PollDispatch(m.st)
            /\ handed' = IF m.st \in Terminal THEN handed \cup {m.g} ELSE handed
            /\ shown' = [p |-> m.p, r |-> Rank(m)]
  /\ last' = Event("tick", m)
  /\ UNCHANGED <<range, aside>>
  /\ UNCHANGED <<currentProjectId, reader, backend, sent, awaitJob>>

\* the continuation of the tick: the dispatch on the status, or the catch block
TickApply(m) ==
  /\ m \in Awaited /\ m.k = "tick"
  /\ Receive(m)
  /\ IF m.st = "fail"
       THEN UNCHANGED <<polling, screen, handed, shown>>
       ELSE /\ PollDispatch(m.st)
            /\ handed' = IF m.st \in Terminal THEN handed \cup {m.g} ELSE handed
            /\ shown' = [p |-> m.p, r |-> Rank(m)]
  /\ last' = Event("tick", m)
  /\ UNCHANGED <<range, aside>>
  /\ UNCHANGED <<currentProjectId, reader, backend, sent, awaitJob>>

\* ── Handlers that start a backend job ──────────────────────────────────
\* await apiJson(`/api/projects/${state.currentProjectId}/...`, {method: "POST"})
Post(op) ==
  \E ok \in BOOLEAN :
    /\ ok => Accepts(currentProjectId)
    /\ BackendStart(op, currentProjectId, ok)
    /\ Send(StartAnswer(op, currentProjectId, ok))

\* the handler after the awaited POST: startPolling() / pollForRetranslate(),
\* or the catch block
PostApply(m) ==
  /\ m \in Awaited /\ m.k = "post" /\ m.op \in StartOps
  /\ Receive(m)
  /\ IF m.st = "ok"
       THEN /\ StartPolling(IF m.op = "refine_retranslate" THEN "retr" ELSE "status")
            /\ awaitJob' = JobOf(m)
            /\ UNCHANGED view
       ELSE /\ UNCHANGED <<polling, awaitJob>>
            /\ view' = IF m.op = "refine_analysis" THEN [view EXCEPT !["analysis"] = "content"]
                       ELSE IF m.op \in {"regen_strategy", "apply_template"}
                         THEN [view EXCEPT !["strategy"] = "content"]
                       ELSE view
  /\ last' = Event("posted", m)
  /\ UNCHANGED <<range, aside>>
  /\ UNCHANGED <<currentProjectId, panel, reviewIsStopped, reviewProj, reader, backend,
                 sent, handed, shown>>

\* a click whose handler shows `show` and awaits the POST of `op`
StartClick(op, show) ==
  /\ Request
  /\ show
  /\ Post(op)
  /\ last' = Event(op, NoMsg)
  /\ UNCHANGED <<range, aside>>
  /\ UNCHANGED <<currentProjectId, polling, reader, awaitJob, handed, shown>>

\* btn-refine-analysis
RefineAnalysis ==
  /\ panel = "analysis" /\ view["analysis"] = "content"
  /\ StartClick("refine_analysis", ShowLoading("analysis"))

\* btn-gen-strategy
GenStrategy ==
  /\ panel = "analysis" /\ view["analysis"] = "content"
  /\ StartClick("gen_strategy", ShowLoading("strategy"))

\* .tpl-apply
ApplyTemplate ==
  /\ panel = "strategy" /\ view["strategy"] = "content"
  /\ StartClick("apply_template", ShowLoading("strategy"))

\* btn-refine-and-retranslate
RefineAndRetranslate ==
  /\ panel = "sample" /\ view["sample"] = "content"
  /\ StartClick("refine_retranslate", ShowLoading("sample"))

\* btn-resume-translate (shown on the done panel of a stopped translation)
Resume ==
  /\ panel = "done" /\ reviewIsStopped
  /\ StartClick("resume", panel' = "translate" /\ UNCHANGED <<view, reviewIsStopped, reviewProj>>)

\* btn-regen-strategy / btn-translate-sample: first await the PUT of the strategy
\* edits, whose failure is ignored
SaveThen(op) ==
  /\ panel = "strategy" /\ view["strategy"] = "content"
  /\ Request
  /\ Send(Msg("put", op, currentProjectId, NoTimer, "ok", 0))
  /\ last' = Event("save", NoMsg)
  /\ UNCHANGED <<range, aside>>
  /\ UNCHANGED <<currentProjectId, polling, screen, reader, backend, awaitJob, handed, shown>>

\* ... then show(loading); hide(content) and await the POST
SaveApply(m) ==
  /\ m \in Awaited /\ m.k = "put"
  /\ ShowLoading(IF m.op = "regen_strategy" THEN "strategy" ELSE "sample")
  /\ \E ok \in BOOLEAN :
       /\ ok => Accepts(currentProjectId)
       /\ BackendStart(m.op, currentProjectId, ok)
       /\ Replace(m, StartAnswer(m.op, currentProjectId, ok))
  /\ last' = Event("saved", m)
  /\ UNCHANGED <<range, aside>>
  /\ UNCHANGED <<currentProjectId, polling, reader, sent, awaitJob, handed, shown>>

\* btn-translate-all (sample panel) / btn-translate-more (review panel), for a
\* range that startTranslation accepts and the user confirms
TranslateAll ==
  /\ (panel = "sample" /\ view["sample"] = "content") \/ panel = "review"
  /\ StartClick("translate_all",
                panel' = "translate" /\ UNCHANGED <<view, reviewIsStopped, reviewProj>>)

\* btn-stop-translate: await the POST of translate/stop
StopTranslate ==
  /\ panel = "translate"
  /\ Request
  /\ \E ok \in BOOLEAN :
       /\ ok => currentProjectId \in Projects /\ bstatus[currentProjectId] = "translating"
       /\ bstop' = IF ok THEN bstop \cup {currentProjectId} ELSE bstop
       /\ Send(Msg("post", "stop", currentProjectId, NoTimer, IF ok THEN "ok" ELSE "fail", 0))
  /\ last' = Event("stop", NoMsg)
  /\ UNCHANGED <<range, aside>>
  /\ UNCHANGED <<currentProjectId, polling, screen, reader, bstatus, bjob, chJob,
                 awaitJob, handed, shown>>

\* a faulty handler that hands off to review as soon as the stop is accepted
StopApplyHandsOff(m) ==
  /\ m \in Awaited /\ m.k = "post" /\ m.op = "stop"
  /\ Receive(m)
  /\ IF m.st = "ok" THEN StopPolling /\ ShowReview(TRUE) ELSE UNCHANGED <<polling, screen>>
  /\ last' = Event("posted", m)
  /\ UNCHANGED <<range, aside>>
  /\ UNCHANGED <<currentProjectId, reader, backend, sent, awaitJob, handed, shown>>

\* ... then the button is disabled, or the failure is alerted
StopApply(m) ==
  /\ m \in Awaited /\ m.k = "post" /\ m.op = "stop"
  /\ Receive(m)
  /\ last' = Event("posted", m)
  /\ UNCHANGED <<range, aside>>
  /\ UNCHANGED <<currentProjectId, polling, screen, reader, backend, sent, awaitJob, handed, shown>>

\* ── Refine and retranslate: one tick of the pollForRetranslate callback ─
RetrFire(t) ==
  /\ t \in timers /\ t.kind = "retr"
  /\ currentProjectId # NoProject
  /\ Request
  /\ \E ok \in BOOLEAN : Send(StatusAnswer("rtick", "poll", currentProjectId, t.g, ok))
  /\ last' = Event("fire", NoMsg)
  /\ UNCHANGED <<range, aside>>
  /\ UNCHANGED <<currentProjectId, polling, screen, reader, backend, awaitJob, handed, shown>>

RetrApply(m) ==
  /\ m \in Awaited /\ m.k = "rtick"
  /\ CASE m.st = "strategy_generated" -> \* stopPolling(); await the POST of translate/sample
            /\ StopPolling
            /\ \E ok \in BOOLEAN :
                 /\ ok => Accepts(currentProjectId)
                 /\ BackendStart("rt_sample", currentProjectId, ok)
                 /\ Replace(m, StartAnswer("rt_sample", currentProjectId, ok))
            /\ UNCHANGED <<screen, handed, shown>>
       [] m.st \in {"sample_ready", "error"} ->
            /\ StopPolling
            /\ ShowPhase("sample")
            /\ handed' = handed \cup {m.g}
            /\ Receive(m)
            /\ UNCHANGED <<backend, shown>>
       [] OTHER ->
            Receive(m) /\ UNCHANGED <<polling, screen, handed, shown, backend>>
  /\ last' = Event("rtick", m)
  /\ UNCHANGED <<range, aside>>
  /\ UNCHANGED <<currentProjectId, reader, sent, awaitJob>>

\* ── Reader: retranslate the chapter that is open ───────────────────────
\* a translated chapter of the review list is clicked: openChapterReader(ch)
OpenReader ==
  /\ panel = "review" /\ reviewProj # NoProject
  /\ panel' = "reader"
  /\ reader' = [reader EXCEPT !.proj = reviewProj]
  /\ last' = Event("nav", NoMsg)
  /\ UNCHANGED <<range, aside>>
  /\ UNCHANGED <<currentProjectId, polling, view, reviewIsStopped, reviewProj, inflight,
                 backend, sent, awaitJob, handed, shown>>

\* btn-reader-exit
ExitReader ==
  /\ panel = "reader"
  /\ ShowReview(reviewIsStopped)
  /\ last' = Event("nav", NoMsg)
  /\ UNCHANGED <<range, aside>>
  /\ UNCHANGED <<currentProjectId, polling, reader, inflight, backend, sent, awaitJob, handed, shown>>

\* btn-confirm-retranslate, up to the awaited POST of the retranslation
ConfirmRetranslate ==
  /\ panel = "reader" /\ ~reader.btnOff
  /\ Request
  /\ reader' = [reader EXCEPT !.busy = TRUE, !.btnOff = TRUE]
  /\ \E ok \in BOOLEAN :
       /\ ok => currentProjectId = reader.proj /\ chJob \in {"none", "done", "failed"}
       /\ chJob' = IF ok THEN "queued" ELSE chJob
       /\ Send(Msg("post", "reader_retranslate", currentProjectId, NoTimer,
                   IF ok THEN "ok" ELSE "fail", 0))
  /\ last' = Event("retranslate", NoMsg)
  /\ UNCHANGED <<range, aside>>
  /\ UNCHANGED <<currentProjectId, polling, screen, bstatus, bjob, bstop, awaitJob, handed, shown>>

\* ... then const timer = setInterval(...), or the catch block
RetranslateApply(m) ==
  /\ m \in Awaited /\ m.k = "post" /\ m.op = "reader_retranslate"
  /\ Receive(m)
  /\ IF m.st = "ok"
       THEN /\ timers' = timers \cup {NewTimer("reader")}
            /\ gen' = gen + 1
            /\ reader' = [reader EXCEPT !.saw = FALSE]
       ELSE /\ reader' = [reader EXCEPT !.busy = FALSE, !.btnOff = FALSE]
            /\ UNCHANGED <<timers, gen>>
  /\ last' = Event("posted", m)
  /\ UNCHANGED <<range, aside>>
  /\ UNCHANGED <<currentProjectId, pollTimer, screen, backend, sent, awaitJob, handed, shown>>

\* GET /api/projects/{id}/chapters, reduced to the entry of the chapter
ChapterAnswer(p, g, ok) ==
  Msg("rd", "poll", p, g,
      IF ~ok \/ p \notin Projects THEN "fail"
      ELSE IF p # reader.proj THEN "missing"
      ELSE CASE chJob = "translating" -> "translating"
             [] chJob = "failed" -> "pending"
             [] chJob = "done" -> "retranslated"
             [] OTHER -> "translated",
      0)

\* one tick of the reader's retranslation interval
ReaderFire(t) ==
  /\ t \in timers /\ t.kind = "reader"
  /\ Request
  /\ \E ok \in BOOLEAN : Send(ChapterAnswer(currentProjectId, t.g, ok))
  /\ last' = Event("fire", NoMsg)
  /\ UNCHANGED <<range, aside>>
  /\ UNCHANGED <<currentProjectId, polling, screen, reader, backend, awaitJob, handed, shown>>

ReaderApply(m) ==
  /\ m \in Awaited /\ m.k = "rd"
  /\ Receive(m)
  /\ CASE m.st = "missing" ->
            /\ timers' = {t \in timers : t.g # m.g}
            /\ reader' = [reader EXCEPT !.busy = FALSE]
            /\ UNCHANGED reviewProj
       [] m.st = "retranslated" \/ (m.st = "translated" /\ reader.saw) ->
            /\ timers' = {t \in timers : t.g # m.g}
            /\ reader' = [reader EXCEPT !.busy = FALSE, !.btnOff = FALSE, !.proj = m.p]
            /\ reviewProj' = m.p
       [] m.st = "pending" /\ reader.saw ->
            /\ timers' = {t \in timers : t.g # m.g}
            /\ reader' = [reader EXCEPT !.busy = FALSE, !.btnOff = FALSE]
            /\ UNCHANGED reviewProj
       [] m.st = "translating" ->
            /\ reader' = [reader EXCEPT !.saw = TRUE]
            /\ UNCHANGED <<timers, reviewProj>>
       [] OTHER -> UNCHANGED <<timers, reader, reviewProj>>
  /\ last' = Event("rd", m)
  /\ UNCHANGED <<range, aside>>
  /\ UNCHANGED <<currentProjectId, pollTimer, gen, panel, view, reviewIsStopped, backend,
                 sent, awaitJob, handed, shown>>

\* the backend's retranslation job of the chapter
BackendChapter ==
  /\ chJob \in {"queued", "translating"}
  /\ chJob' \in (IF chJob = "queued" THEN {"translating"} ELSE {"done", "failed"})
  /\ UNCHANGED <<currentProjectId, polling, screen, reader, inflight, bstatus, bjob, bstop,
                 sent, awaitJob, handed, shown, last, range, aside>>

\* ── Project list ───────────────────────────────────────────────────────
\* openProject(projectId), up to the awaited GET of the project
OpenProject(p) ==
  /\ Request
  /\ currentProjectId' = p
  /\ StopPolling
  /\ \E ok \in BOOLEAN : Send(StatusAnswer("open", "open", p, NoTimer, ok))
  /\ last' = Event("open", NoMsg)
  /\ UNCHANGED <<range, aside>>
  /\ UNCHANGED <<screen, reader, backend, awaitJob, handed, shown>>

\* openProject: the switch on project.status
OpenDispatch(m) ==
  CASE m.st = "uploaded" -> \* hide(loading); hide(content); startAnalysis()
         /\ ShowLoading("analysis")
         /\ \E ok \in BOOLEAN :
              /\ ok => Accepts(currentProjectId)
              /\ BackendStart("analyze", currentProjectId, ok)
              /\ Replace(m, StartAnswer("analyze", currentProjectId, ok))
         /\ UNCHANGED <<polling, awaitJob>>
    [] m.st \in InProgress ->
         /\ IF m.st = "translating"
              THEN panel' = "translate" /\ UNCHANGED <<view, reviewIsStopped, reviewProj>>
              ELSE ShowLoading(CASE m.st = "analyzing" -> "analysis"
                                 [] m.st = "generating_strategy" -> "strategy"
                                 [] OTHER -> "sample")
         /\ StartPolling("status")
         /\ awaitJob' = JobOf(m)
         /\ Receive(m)
         /\ UNCHANGED backend
    [] m.st \in {"analyzed", "error"} ->
         ShowPhase("analysis") /\ Receive(m) /\ UNCHANGED <<polling, awaitJob, backend>>
    [] m.st = "strategy_generated" ->
         ShowPhase("strategy") /\ Receive(m) /\ UNCHANGED <<polling, awaitJob, backend>>
    [] m.st = "sample_ready" ->
         ShowPhase("sample") /\ Receive(m) /\ UNCHANGED <<polling, awaitJob, backend>>
    [] m.st \in {"stopped", "completed"} ->
         ShowReview(m.st = "stopped") /\ Receive(m) /\ UNCHANGED <<polling, awaitJob, backend>>
    [] OTHER -> \* the GET failed: the rejection leaves openProject
         Receive(m) /\ UNCHANGED <<polling, screen, awaitJob, backend>>

OpenApply(m) ==
  /\ m \in Awaited /\ m.k = "open"
  /\ OpenDispatch(m)
  /\ last' = Event("opened", m)
  /\ UNCHANGED <<range, aside>>
  /\ UNCHANGED <<currentProjectId, reader, sent, handed, shown>>

\* btn-home / btn-new-project
Home ==
  /\ panel # "upload" \/ currentProjectId # NoProject
  /\ currentProjectId' = NoProject
  /\ panel' = "upload"
  /\ last' = Event("home", NoMsg)
  /\ UNCHANGED <<range, aside>>
  /\ UNCHANGED <<polling, view, reviewIsStopped, reviewProj, reader, inflight, backend,
                 sent, awaitJob, handed, shown>>

\* btn-review-done / btn-back-to-review
ReviewDone ==
  /\ panel \in {"review", "done"}
  /\ IF panel = "review"
       THEN panel' = "done" /\ UNCHANGED <<view, reviewIsStopped, reviewProj>>
       ELSE ShowReview(reviewIsStopped)
  /\ last' = Event("nav", NoMsg)
  /\ UNCHANGED <<range, aside>>
  /\ UNCHANGED <<currentProjectId, polling, reader, inflight, backend, sent,
                 awaitJob, handed, shown>>

Next ==
  \/ \E p \in Projects : BackendFinish(p)
  \/ \E t \in timers : TickFire(t)
  \/ \E m \in Awaited : TickApply(m)
  \/ \E p \in Projects : OpenProject(p)
  \/ \E m \in Awaited : OpenApply(m)
  \/ Home
  \/ \E m \in Awaited : PostApply(m)
  \/ RefineAnalysis
  \/ GenStrategy
  \/ ApplyTemplate
  \/ RefineAndRetranslate
  \/ Resume
  \/ \E op \in {"regen_strategy", "translate_sample"} : SaveThen(op)
  \/ \E m \in Awaited : SaveApply(m)
  \/ ReviewDone
  \/ TranslateAll
  \/ StopTranslate
  \/ \E m \in Awaited : StopApply(m)
  \/ \E t \in timers : RetrFire(t)
  \/ \E m \in Awaited : RetrApply(m)
  \/ OpenReader
  \/ ExitReader
  \/ ConfirmRetranslate
  \/ \E m \in Awaited : RetranslateApply(m)
  \/ \E t \in timers : ReaderFire(t)
  \/ \E m \in Awaited : ReaderApply(m)
  \/ BackendChapter

Spec == Init /\ [][Next]_vars


\* ── The translate phase of one project, chapter by chapter (SpecRange) ──
\* Spec above leaves the chapter range of a translation out; SpecRange follows
\* project 1 from its sample panel through translate, stop, review and done.
RangeRequest == sent < MaxRangeRequests /\ sent' = sent + 1

\* everything of the page that the translate phase of the open project leaves alone
elsewhere == <<currentProjectId, reader, chJob, handed, shown>>

\* backend: POST translate/all with body {start_chapter: s, end_chapter: e}
RangeAccepts(b) ==
  /\ bstatus[1] \notin InProgress
  /\ b = NoBody \/ (0 <= b.s /\ b.s <= b.e /\ b.e < NumChapters)

\* without a body the job covers the whole book
BackendTranslateAll(b, ok) ==
  /\ BackendStart("translate_all", 1, ok)
  /\ job' = IF ~ok THEN job
            ELSE IF b = NoBody THEN [s |-> 0, e |-> NumChapters - 1] ELSE b

\* the chapters of the job's range that are still to be translated
Todo == {i \in job.s..job.e : chapters[i] # "translated"}
First(S) == CHOOSE i \in S : \A k \in S : i <= k
Last(S) == CHOOSE i \in S : \A k \in S : k <= i

\* backend: the translation job translates its next chapter, or ends
BackendTranslate ==
  /\ bstatus[1] = "translating"
  /\ IF Todo = {}
       THEN /\ bstatus' = [bstatus EXCEPT ![1] = "completed"]
            /\ UNCHANGED <<chapters, bstop>>
       ELSE IF 1 \in bstop
         THEN /\ bstatus' = [bstatus EXCEPT ![1] = "stopped"]
              /\ bstop' = bstop \ {1}
              /\ UNCHANGED chapters
         ELSE /\ chapters' = [chapters EXCEPT ![First(Todo)] = "translated"]
              /\ UNCHANGED <<bstatus, bstop>>
  /\ typed' = NoInput
  /\ UNCHANGED <<elsewhere, aside, polling, screen, inflight, bjob, sent, awaitJob, last,
                 totalChapterCount, translateRangeStart, translateRangeEnd, reviewRange,
                 job, asked>>

\* startTranslation(startEl, endEl), the inputs holding sv and ev, the user
\* answering the confirm dialog with `confirmed`
StartTranslation(sv, ev, confirmed) ==
  LET s == ParseIntOr(sv, 1)
      e == ParseIntOr(ev, totalChapterCount)
      count == e - s + 1
      body == [s |-> s - 1, e |-> e - 1]
  IN  /\ typed' = <<sv, ev>>
      /\ IF count < 1 \/ ~confirmed
           THEN UNCHANGED <<polling, screen, inflight, backend, sent, awaitJob,
                            translateRangeStart, translateRangeEnd, job, asked>>
           ELSE /\ translateRangeStart' = s - 1
                /\ translateRangeEnd' = e - 1
                /\ panel' = "translate"
                /\ RangeRequest
                /\ asked' = body
                /\ \E ok \in BOOLEAN :
                     /\ ok => RangeAccepts(body)
                     /\ BackendTranslateAll(body, ok)
                     /\ Send(StartAnswer("translate_all", 1, ok))
                /\ UNCHANGED <<polling, view, reviewIsStopped, reviewProj, awaitJob>>
      /\ last' = Event("translate_all", NoMsg)
      /\ UNCHANGED <<elsewhere, aside, totalChapterCount, reviewRange, chapters>>

\* btn-translate-all, whatever the range inputs of the sample panel hold
TranslateAllClick ==
  /\ panel = "sample" /\ sent < MaxRangeRequests
  /\ \E sv \in Inputs, ev \in Inputs, confirmed \in BOOLEAN : StartTranslation(sv, ev, confirmed)

\* btn-translate-more, with the range showReview has put into the inputs
TranslateMoreClick ==
  /\ panel = "review" /\ sent < MaxRangeRequests
  /\ reviewRange[1] # <<>>
  /\ \E confirmed \in BOOLEAN : StartTranslation(reviewRange[1], reviewRange[2], confirmed)

\* btn-resume-translate: POST translate/all without a body
ResumeClick ==
  /\ panel = "done" /\ reviewIsStopped
  /\ panel' = "translate"
  /\ RangeRequest
  /\ asked' = NoBody
  /\ \E ok \in BOOLEAN :
       /\ ok => RangeAccepts(NoBody)
       /\ BackendTranslateAll(NoBody, ok)
       /\ Send(StartAnswer("resume", 1, ok))
  /\ typed' = NoInput
  /\ last' = Event("resume", NoMsg)
  /\ UNCHANGED <<elsewhere, aside, polling, view, reviewIsStopped, reviewProj, awaitJob,
                 totalChapterCount, translateRangeStart, translateRangeEnd, reviewRange,
                 chapters>>

\* .then(() => startPolling()) / .catch(alert)
RangePosted(m) ==
  /\ m \in Awaited /\ m.k = "post"
  /\ Receive(m)
  /\ IF m.st = "ok" THEN StartPolling("status") /\ awaitJob' = JobOf(m)
                    ELSE UNCHANGED <<polling, awaitJob>>
  /\ typed' = NoInput
  /\ last' = Event("posted", m)
  /\ UNCHANGED <<elsewhere, aside, screen, backend, sent, totalChapterCount, translateRangeStart,
                 translateRangeEnd, reviewRange, chapters, job, asked>>

\* btn-stop-translate, confirmed
StopClick ==
  /\ panel = "translate"
  /\ RangeRequest
  /\ \E ok \in BOOLEAN :
       /\ ok => bstatus[1] = "translating"
       /\ bstop' = IF ok THEN bstop \cup {1} ELSE bstop
  /\ typed' = NoInput
  /\ last' = Event("stop", NoMsg)
  /\ UNCHANGED <<elsewhere, aside, polling, screen, inflight, bstatus, bjob, awaitJob,
                 totalChapterCount, translateRangeStart, translateRangeEnd, reviewRange,
                 chapters, job, asked>>

RangeTickFire(t) ==
  /\ t \in timers /\ t.kind = "status"
  /\ RangeRequest
  /\ \E ok \in BOOLEAN : Send(StatusAnswer("tick", "poll", currentProjectId, t.g, ok))
  /\ typed' = NoInput
  /\ last' = Event("fire", NoMsg)
  /\ UNCHANGED <<elsewhere, aside, polling, screen, backend, awaitJob, totalChapterCount,
                 translateRangeStart, translateRangeEnd, reviewRange, chapters, job, asked>>

\* showReview: the translate-more form is displayed when a chapter of the book
\* is not translated, its inputs set to the first and the last such chapter
Untranslated == {i \in ChapterIndexes : chapters[i] # "translated"}
Prefill ==
  IF Untranslated = {} THEN <<<<>>, <<>>>>
  ELSE <<<<First(Untranslated) + 1>>, <<Last(Untranslated) + 1>>>>

\* the tick of pollStatus, with the chapter list showReview fetches
RangeTickApply(m) ==
  /\ m \in Awaited /\ m.k = "tick"
  /\ Receive(m)
  /\ IF m.st = "fail" THEN UNCHANGED <<polling, screen>> ELSE PollDispatch(m.st)
  /\ IF m.st \in {"stopped", "completed"}
       THEN totalChapterCount' = NumChapters /\ reviewRange' = Prefill
       ELSE UNCHANGED <<totalChapterCount, reviewRange>>
  /\ typed' = NoInput
  /\ last' = Event("tick", m)
  /\ UNCHANGED <<elsewhere, aside, backend, sent, awaitJob, translateRangeStart,
                 translateRangeEnd, chapters, job, asked>>

\* btn-review-done: showPanel("done"); showDone(state.reviewIsStopped)
ReviewDoneClick ==
  /\ panel = "review"
  /\ panel' = "done"
  /\ typed' = NoInput
  /\ last' = Event("nav", NoMsg)
  /\ UNCHANGED <<elsewhere, aside, polling, view, reviewIsStopped, reviewProj, inflight, backend,
                 sent, awaitJob, totalChapterCount, translateRangeStart, translateRangeEnd,
                 reviewRange, chapters, job, asked>>

\* project 1, whose sample is ready, has been opened: showSample() has run
InitRange ==
  /\ Loaded(1, "sample_ready", "translating")
  /\ totalChapterCount = NumChapters
  /\ RangeInit
  /\ AsideInit

NextRange ==
  \/ TranslateAllClick
  \/ TranslateMoreClick
  \/ ResumeClick
  \/ \E m \in Awaited : RangePosted(m)
  \/ StopClick
  \/ \E t \in timers : RangeTickFire(t)
  \/ \E m \in Awaited : RangeTickApply(m)
  \/ ReviewDoneClick
  \/ BackendTranslate

SpecRange == InitRange /\ [][NextRange]_vars

\* ── showPanel and the steps bar ────────────────────────────────────────
\* the variables of the other specifications that showPanel leaves alone
offPanel == <<polling, view, reviewIsStopped, reviewProj, reader, inflight, backend, sent,
              awaitJob, handed, shown, last, range, progressBar, ledger, marks, page, editor, retr, saves>>

\* showPanel(name), called while state.hasTranslatedChapters is h
ShowPanel(name, h) ==
  /\ panel' = name
  /\ hasTranslatedChapters' = h
  /\ steps' = [i \in StepIndexes |-> StepClasses(i, IndexOf(name), h)]
  /\ hash' = IF currentProjectId # NoProject /\ name # "upload"
               THEN [p |-> currentProjectId, name |-> name]
             ELSE IF name = "upload" /\ hash \notin {NoHash, RootHash} THEN RootHash
             ELSE hash
  /\ UNCHANGED <<currentProjectId, offPanel>>

\* state.currentProjectId = projectId (openProject), = null (btn-home)
SelectProject(p) ==
  /\ currentProjectId' = p
  /\ UNCHANGED <<panel, stepsBar, offPanel>>

InitPanel ==
  /\ Loaded(NoProject, "uploaded", "translating")
  /\ totalChapterCount = 0
  /\ RangeInit
  /\ AsideInit

NextPanel ==
  \/ \E name \in Panels, h \in BOOLEAN : ShowPanel(name, h)
  \/ \E p \in Projects \cup {NoProject} : SelectProject(p)

SpecPanel == InitPanel /\ [][NextPanel]_vars

\* ── Progress of a translation ──────────────────────────────────────────
\* the backend translates one more chunk of the first chapter still to do; the
\* chapter is translated with its last chunk
BackendChunk ==
  /\ Todo # {}
  /\ IF bchunk + 1 < ChunkTotal
       THEN bchunk' = bchunk + 1 /\ UNCHANGED chapters
       ELSE bchunk' = 0 /\ chapters' = [chapters EXCEPT ![First(Todo)] = "translated"]
  /\ UNCHANGED <<held, bar>>

\* GET /api/projects/{id}/progress
ProgressReport ==
  [cur |-> Todo # {}, done |-> bchunk, total |-> ChunkTotal,
   translated |-> Cardinality({i \in job.s..job.e : chapters[i] = "translated"}),
   all |-> job.e - job.s + 1]

\* a tick that saw "translating" awaits the progress of the project
GetProgress ==
  /\ held.stage = "none"
  /\ held' = [stage |-> "progress", p |-> ProgressReport, files |-> NoFiles]
  /\ UNCHANGED <<bchunk, bar, chapters>>

\* updateProgressUI(progress) up to its await: GET chapter-files, which is
\* answered with the chapters or fails
GetChapterFiles ==
  /\ held.stage = "progress"
  /\ \E ok \in BOOLEAN :
       held' = [held EXCEPT !.stage = "files",
                            !.files = IF ok THEN <<chapters>> ELSE NoFiles]
  /\ UNCHANGED <<bchunk, bar, chapters>>

\* Math.min(100, Math.round(num / den * 100)), or 0 without chapters
Percent(num, den) ==
  IF den > 0
    THEN LET rounded == (200 * num + den) \div (2 * den)
         IN  IF rounded < 100 THEN rounded ELSE 100
    ELSE 0

\* the bar that updateProgressUI draws for `translated` chapters of `total`
Drawn(translated, total) ==
  LET chunkDone == held.p.done
      chunkTotal == IF held.p.total = 0 THEN 1 ELSE held.p.total
      num == translated * chunkTotal + (IF held.p.cur THEN chunkDone ELSE 0)
  IN  [pct |-> Percent(num, chunkTotal * total), translated |-> translated,
       num |-> num, den |-> chunkTotal]

\* updateProgressUI after its await: the try block, or the catch block
ShowProgress ==
  /\ held.stage = "files"
  /\ bar' = IF held.files # NoFiles
              THEN LET data == held.files[1]
                       rs == translateRangeStart
                       re == IF translateRangeEnd >= 0 THEN translateRangeEnd
                                                       ELSE NumChapters - 1
                       rangeChapters == {i \in ChapterIndexes : i >= rs /\ i <= re}
                       total == IF rangeChapters # {} THEN Cardinality(rangeChapters)
                                                      ELSE held.p.all
                   IN  Drawn(Cardinality({i \in rangeChapters : data[i] = "translated"}),
                             total)
              ELSE Drawn(held.p.translated, held.p.all)
  /\ held' = NoHeld
  /\ UNCHANGED <<bchunk, chapters>>

\* the variables that the progress of a translation leaves alone
offProgress == <<currentProjectId, polling, screen, reader, inflight, backend, sent,
                 awaitJob, handed, shown, last, totalChapterCount, translateRangeStart,
                 translateRangeEnd, reviewRange, job, asked, typed, stepsBar, ledger, marks, page, editor, retr, saves>>

\* startTranslation has started the translation of a range of project 1
InitProgress ==
  /\ Loaded(1, "translating", "translating")
  /\ totalChapterCount = NumChapters
  /\ \E s \in ChapterIndexes, e \in ChapterIndexes :
       /\ s <= e
       /\ translateRangeStart = s /\ translateRangeEnd = e
       /\ job = [s |-> s, e |-> e]
  /\ reviewRange = <<<<>>, <<>>>>
  /\ chapters = [i \in ChapterIndexes |-> "pending"]
  /\ asked = NoBody
  /\ typed = NoInput
  /\ AsideInit

NextProgress ==
  \/ BackendChunk /\ UNCHANGED offProgress
  \/ GetProgress /\ UNCHANGED offProgress
  \/ GetChapterFiles /\ UNCHANGED offProgress
  \/ ShowProgress /\ UNCHANGED offProgress

SpecProgress == InitProgress /\ [][NextProgress]_vars

\* ── Version history of a chapter ───────────────────────────────────────
\* max(existing), 0 for a chapter without versions
MaxVersion == IF DOMAIN versions = {} THEN 0
              ELSE CHOOSE k \in DOMAIN versions : \A j \in DOMAIN versions : j <= k

\* the ledger with one more version, numbered n, of content c
Appended(n, c) == [k \in DOMAIN versions \cup {n} |-> IF k = n THEN c ELSE versions[k]]

\* a faulty recordTranslation that writes over the current version
RecordOverwrites ==
  /\ live \in DOMAIN versions /\ MaxVersion < MaxVersions
  /\ versions' = [versions EXCEPT ![live] = MaxVersion + 1]
  /\ vlast' = [op |-> "record", ver |-> 0, new |-> live]
  /\ UNCHANGED <<live, vstage, cachedVer, listed>>

\* recordTranslation(chapter_id, content): a retranslation has finished; its
\* content is new (named by the number of the version that holds it first)
RecordTranslation ==
  /\ MaxVersion < MaxVersions
  /\ versions' = Appended(MaxVersion + 1, MaxVersion + 1)
  /\ live' = MaxVersion + 1
  /\ vlast' = [op |-> "record", ver |-> 0, new |-> MaxVersion + 1]
  /\ UNCHANGED <<vstage, cachedVer, listed>>

\* a faulty restore that rewinds the live pointer to the named version
StoreRestoreRewinds(ver) ==
  IF ver \in DOMAIN versions
    THEN /\ live' = ver
         /\ vlast' = [op |-> "restore", ver |-> ver, new |-> ver]
         /\ UNCHANGED versions
    ELSE /\ vlast' = [op |-> "norestore", ver |-> ver, new |-> 0]
         /\ UNCHANGED <<versions, live>>

\* restore(chapter_id, version): the content of the named version is copied
\* into a fresh version, which becomes the live one; a version that does not
\* exist fails the restore
StoreRestore(ver) ==
  IF ver \in DOMAIN versions
    THEN /\ versions' = Appended(MaxVersion + 1, versions[ver])
         /\ live' = MaxVersion + 1
         /\ vlast' = [op |-> "restore", ver |-> ver, new |-> MaxVersion + 1]
    ELSE /\ vlast' = [op |-> "norestore", ver |-> ver, new |-> 0]
         /\ UNCHANGED <<versions, live>>

\* a version that is not the live one is deleted upstream
DeleteUpstream ==
  /\ \E k \in DOMAIN versions \ {live} :
       /\ versions' = [j \in DOMAIN versions \ {k} |-> versions[j]]
       /\ vlast' = [op |-> "delete", ver |-> k, new |-> 0]
  /\ UNCHANGED <<live, vstage, cachedVer, listed>>

\* btn-reader-versions: _loadVersionHistory up to its awaited GET versions
OpenVersions ==
  /\ vstage = NoStage
  /\ \E ok \in BOOLEAN :
       vstage' = [NoStage EXCEPT !.stage = "list", !.ok = ok,
                                 !.vers = IF ok THEN DOMAIN versions ELSE {}]
  /\ UNCHANGED <<versions, live, cachedVer, listed, vlast>>

\* _loadVersionHistory after the GET: a row per version, with a restore
\* button unless v.version === currentVer; the hint when the GET failed
RenderList ==
  /\ vstage.stage = "list"
  /\ listed' = vstage.vers \ {cachedVer}
  /\ vstage' = NoStage
  /\ UNCHANGED <<versions, live, cachedVer, vlast>>

\* .ver-btn-restore of a row, confirmed: await the POST of versions/{ver}/restore
RestoreClick(ver) ==
  /\ vstage = NoStage /\ ver \in listed
  /\ \E ok \in BOOLEAN :
       /\ ok => ver \in DOMAIN versions /\ MaxVersion < MaxVersions
       /\ IF ok THEN StoreRestore(ver)
                ELSE /\ vlast' = [op |-> "norestore", ver |-> ver, new |-> 0]
                     /\ UNCHANGED <<versions, live>>
       /\ vstage' = [NoStage EXCEPT !.stage = "posted", !.ok = ok, !.ver = ver]
  /\ UNCHANGED <<cachedVer, listed>>

\* a faulty handler that forgets the chapter and the list when the POST fails
RestorePostedForgets ==
  /\ vstage.stage = "posted"
  /\ IF vstage.ok
       THEN /\ \E ok \in BOOLEAN :
                 vstage' = [NoStage EXCEPT !.stage = "chapters", !.ok = ok,
                                           !.ver = IF ok THEN live ELSE 0]
            /\ UNCHANGED <<cachedVer, listed>>
       ELSE vstage' = NoStage /\ cachedVer' = 0 /\ listed' = {}
  /\ UNCHANGED <<versions, live, vlast>>

\* ... then await the GET of the chapters, or alert the failure
RestorePosted ==
  /\ vstage.stage = "posted"
  /\ IF vstage.ok
       THEN \E ok \in BOOLEAN :
              vstage' = [NoStage EXCEPT !.stage = "chapters", !.ok = ok,
                                        !.ver = IF ok THEN live ELSE 0]
       ELSE vstage' = NoStage
  /\ UNCHANGED <<versions, live, cachedVer, listed, vlast>>

\* ... then state.readerChapters = chapters; loadReaderChapter(); and
\* _loadVersionHistory up to its GET; or alert the failure
ChaptersFetched ==
  /\ vstage.stage = "chapters"
  /\ IF vstage.ok
       THEN /\ cachedVer' = vstage.ver
            /\ \E ok \in BOOLEAN :
                 vstage' = [NoStage EXCEPT !.stage = "list", !.ok = ok,
                                           !.vers = IF ok THEN DOMAIN versions ELSE {}]
       ELSE vstage' = NoStage /\ UNCHANGED cachedVer
  /\ UNCHANGED <<versions, live, listed, vlast>>

\* the poll of a retranslation sees the chapter translated:
\* state.readerChapters = chapters
CacheChapters ==
  /\ cachedVer # live
  /\ cachedVer' = live
  /\ UNCHANGED <<versions, live, vstage, listed, vlast>>

\* the variables that the version history leaves alone
offLedger == <<currentProjectId, polling, screen, reader, inflight, backend, sent,
               awaitJob, handed, shown, last, range, stepsBar, progressBar, marks, page, editor, retr, saves>>

\* project 2 is open in the reader, on a translated chapter
InitVersions ==
  /\ Loaded(2, "stopped", "completed")
  /\ totalChapterCount = 0
  /\ RangeInit
  /\ AsideInit

NextVersions ==
  \/ RecordTranslation /\ UNCHANGED offLedger
  \/ OpenVersions /\ UNCHANGED offLedger
  \/ RenderList /\ UNCHANGED offLedger
  \/ \E ver \in 1..MaxVersions : RestoreClick(ver) /\ UNCHANGED offLedger
  \/ RestorePosted /\ UNCHANGED offLedger
  \/ ChaptersFetched /\ UNCHANGED offLedger
  \/ CacheChapters /\ UNCHANGED offLedger

SpecVersions == InitVersions /\ [][NextVersions]_vars

\* the same, with versions that are deleted upstream
NextConflict ==
  \/ NextVersions
  \/ DeleteUpstream /\ UNCHANGED offLedger

SpecConflict == InitVersions /\ [][NextConflict]_vars

\* ── Highlights of the chapters in the reader ───────────────────────────
\* the sequence without its element at position i: splice(i, 1)
Spliced(seq, i) == [k \in 1..(Len(seq) - 1) |-> IF k < i THEN seq[k] ELSE seq[k + 1]]

Elements(seq) == {seq[k] : k \in 1..Len(seq)}

\* loadReaderChapter(idx) up to its awaits: the chapter becomes the current
\* one; the GETs are answered, the one of the highlights separately (its own
\* catch makes an empty list of a failure)
LoadReaderChapter(c) ==
  /\ hload = NoLoad
  /\ readerCurrentChapterId' = c
  /\ \E ok \in BOOLEAN, hlok \in BOOLEAN :
       hload' = [stage |-> "loading", ch |-> c, ok |-> ok,
                 hl |-> IF hlok THEN stored[c] ELSE <<>>]
  /\ hlast' = [op |-> "load", ch |-> c, text |-> NoText]
  /\ UNCHANGED <<stored, currentHighlights, pendingHighlightText, hlBar, intended>>

\* ... then _currentHighlights = hlResp.highlights || [] and the bar is
\* hidden; or the catch block, which resets the annotations only
ReaderChapterLoaded ==
  /\ hload.stage = "loading"
  /\ IF hload.ok
       THEN currentHighlights' = hload.hl /\ hlBar' = FALSE
       ELSE UNCHANGED <<currentHighlights, hlBar>>
  /\ hload' = NoLoad
  /\ hlast' = [op |-> "loaded", ch |-> hload.ch, text |-> NoText]
  /\ UNCHANGED <<stored, readerCurrentChapterId, pendingHighlightText, intended>>

\* mouseup with a selection of at least 2 characters in the translation pane
SelectText(text) ==
  /\ hload = NoLoad
  /\ pendingHighlightText' = text
  /\ hlBar' = TRUE
  /\ hlast' = [op |-> "select", ch |-> readerCurrentChapterId, text |-> text]
  /\ UNCHANGED <<stored, readerCurrentChapterId, currentHighlights, hload, intended>>

\* _saveHighlights(): PUT highlights of the current chapter, not awaited; a
\* failure is logged
SaveHighlights(list) ==
  \E ok \in BOOLEAN :
    stored' = IF ok /\ readerCurrentChapterId \in ReaderChapters
                THEN [stored EXCEPT ![readerCurrentChapterId] = list]
                ELSE stored

\* btn-add-highlight / btn-save-note, on a chapter that is not being loaded
AddHighlight ==
  /\ hload = NoLoad
  /\ hlBar /\ pendingHighlightText # NoText
  /\ Len(currentHighlights) < MaxHighlights
  /\ currentHighlights' = Append(currentHighlights, pendingHighlightText)
  /\ SaveHighlights(currentHighlights')
  /\ hlBar' = FALSE
  /\ intended' = [c \in ReaderChapters |->
                    IF c = readerCurrentChapterId
                      THEN intended[c] \cup {pendingHighlightText} ELSE intended[c]]
  /\ hlast' = [op |-> "add", ch |-> readerCurrentChapterId, text |-> pendingHighlightText]
  /\ UNCHANGED <<readerCurrentChapterId, hload, pendingHighlightText>>

\* the remove button of the tooltip of the mark with data-hl-idx = i - 1
RemoveHighlight(i) ==
  /\ hload = NoLoad
  /\ i \in 1..Len(currentHighlights)
  /\ currentHighlights' = Spliced(currentHighlights, i)
  /\ SaveHighlights(currentHighlights')
  /\ intended' = [c \in ReaderChapters |->
                    IF c = readerCurrentChapterId
                      THEN intended[c] \ {currentHighlights[i]} ELSE intended[c]]
  /\ hlast' = [op |-> "remove", ch |-> readerCurrentChapterId, text |-> currentHighlights[i]]
  /\ UNCHANGED <<readerCurrentChapterId, hload, pendingHighlightText, hlBar>>

\* the variables that the highlights leave alone
offMarks == <<currentProjectId, polling, screen, reader, inflight, backend, sent,
              awaitJob, handed, shown, last, range, stepsBar, progressBar, ledger, page, editor, retr, saves>>

InitMarks ==
  /\ Loaded(2, "stopped", "completed")
  /\ totalChapterCount = 0
  /\ RangeInit
  /\ AsideInit

NextMarks ==
  \/ \E c \in ReaderChapters : LoadReaderChapter(c) /\ UNCHANGED offMarks
  \/ ReaderChapterLoaded /\ UNCHANGED offMarks
  \/ \E text \in Texts : SelectText(text) /\ UNCHANGED offMarks
  \/ AddHighlight /\ UNCHANGED offMarks
  \/ \E i \in 1..MaxHighlights : RemoveHighlight(i) /\ UNCHANGED offMarks

SpecMarks == InitMarks /\ [][NextMarks]_vars

\* ── The overlay in the reader ──────────────────────────────────────────
\* loadReaderChapter after its awaits, for a translated chapter: the text is
\* rendered, the lists are the answers, the overlay is applied
RenderChapter(annotations) ==
  /\ hload.stage = "loading" /\ hload.ok
  /\ transTitle' = Title
  /\ transText' = Translation
  /\ currentAnnotations' = annotations
  /\ currentHighlights' = hload.hl
  /\ transHtml' = Overlaid(TextToHtml(Translation, Title), hload.hl, annotations,
                           showAnnotations)
  /\ hload' = NoLoad
  /\ passes' = 0
  /\ UNCHANGED showAnnotations

\* btn-add-highlight with the selection str pending: push, refresh
PushHighlight(str) ==
  /\ hload = NoLoad
  /\ Len(str) >= 2 /\ Contains(transText, str)
  /\ Len(currentHighlights) < MaxHighlights
  /\ currentHighlights' = Append(currentHighlights, str)
  /\ transHtml' = RefreshHighlightsDisplay(transHtml, currentHighlights',
                                           currentAnnotations, showAnnotations)
  /\ passes < MaxPasses /\ passes' = passes + 1
  /\ UNCHANGED <<transTitle, transText, currentAnnotations, showAnnotations, hload>>

\* the remove button of the highlight at index i - 1: splice, refresh
SpliceHighlight(i) ==
  /\ hload = NoLoad
  /\ i \in 1..Len(currentHighlights)
  /\ currentHighlights' = Spliced(currentHighlights, i)
  /\ transHtml' = RefreshHighlightsDisplay(transHtml, currentHighlights',
                                           currentAnnotations, showAnnotations)
  /\ passes < MaxPasses /\ passes' = passes + 1
  /\ UNCHANGED <<transTitle, transText, currentAnnotations, showAnnotations, hload>>

\* change of #reader-show-annotations
ToggleAnnotations ==
  /\ hload = NoLoad
  /\ showAnnotations' = ~showAnnotations
  /\ transHtml' = IF showAnnotations' /\ currentAnnotations # <<>>
                    THEN HighlightAnnotatedText(transHtml, currentAnnotations)
                    ELSE Unwrapped(transHtml, AnnMark)
  /\ passes < MaxPasses /\ passes' = passes + 1
  /\ UNCHANGED <<transTitle, transText, currentAnnotations, currentHighlights, hload>>

\* the variables that the overlay leaves alone
offOverlay == <<currentProjectId, polling, screen, reader, inflight, backend, sent,
                awaitJob, handed, shown, last, range, stepsBar, progressBar, ledger,
                stored, readerCurrentChapterId, pendingHighlightText, hlBar, intended,
                hlast, editor, retr, saves>>

\* the reader has asked for chapter 1; the answer carries its highlights
InitOverlay ==
  /\ Loaded(2, "stopped", "completed")
  /\ totalChapterCount = 0
  /\ RangeInit
  /\ StepsInit /\ ProgressIdle /\ LedgerInit /\ PageInit /\ EditorInit /\ RetrInit /\ SavesInit
  /\ stored = [c \in ReaderChapters |-> <<>>]
  /\ readerCurrentChapterId = 1
  /\ currentHighlights = <<>>
  /\ hload \in {[stage |-> "loading", ch |-> 1, ok |-> TRUE, hl |-> list] :
                  list \in StoredLists}
  /\ pendingHighlightText = NoText
  /\ hlBar = FALSE
  /\ intended = [c \in ReaderChapters |-> {}]
  /\ hlast = [op |-> "init", ch |-> 0, text |-> NoText]

NextOverlay ==
  \/ \E annotations \in AnnotationLists :
       RenderChapter(annotations) /\ UNCHANGED offOverlay
  \/ \E str \in HighlightTexts : PushHighlight(str) /\ UNCHANGED offOverlay
  \/ \E i \in 1..MaxHighlights : SpliceHighlight(i) /\ UNCHANGED offOverlay
  \/ ToggleAnnotations /\ UNCHANGED offOverlay

SpecOverlay == InitOverlay /\ [][NextOverlay]_vars

\* ── textToHtml over titles and texts ───────────────────────────────────
\* the titles and the paragraphs that the texts are made of
Titles == {<<>>, <<"D", "u", "s", "k">>, <<"1", ".", " ", "a">>}
ParagraphTexts == {<<"D", "u", "s", "k">>,
                   <<"d", "u", "s", "k">>,
                   <<"D", "u", "s", "k", ".">>,
                   <<"*", "*", "*">>,
                   <<"1", ".", " ", "a">>,
                   <<"a", "&", "b", "\n", "c">>}
MaxParagraphs == 2

\* the paragraphs with a blank line between them
RECURSIVE Joined(_)
Joined(paragraphs) ==
  IF paragraphs = <<>> THEN <<>>
  ELSE IF Len(paragraphs) = 1 THEN paragraphs[1]
  ELSE paragraphs[1] \o <<"\n", "\n">> \o Joined(Tail(paragraphs))

\* textToHtml(trans.text, title) fills the pane
FillPane ==
  /\ transHtml = <<>>
  /\ transHtml' = TextToHtml(transText, transTitle)
  /\ UNCHANGED <<transTitle, transText, currentAnnotations, showAnnotations, passes>>

offRender == <<currentProjectId, polling, screen, reader, inflight, backend, sent,
               awaitJob, handed, shown, last, range, stepsBar, progressBar, ledger, marks, editor, retr, saves>>

InitRender ==
  /\ Loaded(2, "stopped", "completed")
  /\ totalChapterCount = 0
  /\ RangeInit
  /\ StepsInit /\ ProgressIdle /\ LedgerInit /\ MarksInit /\ EditorInit /\ RetrInit /\ SavesInit
  /\ transTitle \in Titles
  /\ transText \in {Joined(ps) : ps \in ListsOf(ParagraphTexts, MaxParagraphs)}
  /\ transHtml = <<>>
  /\ currentAnnotations = <<>>
  /\ showAnnotations = TRUE
  /\ passes = 0

NextRender == FillPane /\ UNCHANGED offRender

SpecRender == InitRender /\ [][NextRender]_vars

\* ── The title editor ───────────────────────────────────────────────────
\* openTitleEditor(), the chapters being loaded: one row for each chapter
OpenTitleEditor ==
  /\ rows' = [k \in 1..Len(readerChapters) |->
                [ctype |-> TypeOf(readerChapters[k]),
                 orig |-> readerChapters[k].title,
                 trans |-> readerChapters[k].translated_title]]
  /\ numbering' = NoNumbering
  /\ UNCHANGED <<readerChapters, clicks>>

\* click on btn-auto-number: the mode is detected from state.readerChapters,
\* confirm() returns ok, the rows are numbered
AutoNumber(ok, tgtLang) ==
  /\ rows # <<>>
  /\ clicks < MaxClicks /\ clicks' = clicks + 1
  /\ LET mode == DetectedMode(readerChapters)
     IN  /\ numbering' = [mode |-> mode, confirmed |-> ok]
         /\ rows' = IF ok THEN [k \in 1..Len(rows) |-> Numbered(rows, k, mode, tgtLang)]
                          ELSE rows
  /\ UNCHANGED readerChapters

\* the variables that the title editor leaves alone
offEditor == <<currentProjectId, polling, screen, reader, inflight, backend, sent,
               awaitJob, handed, shown, last, range, stepsBar, progressBar, ledger, marks,
               page, retr, saves>>

\* a book of MaxRows chapters is open in the reader
InitTitles ==
  /\ Loaded(2, "stopped", "completed")
  /\ totalChapterCount = 0
  /\ RangeInit
  /\ StepsInit /\ ProgressIdle /\ LedgerInit /\ MarksInit /\ PageInit /\ RetrInit /\ SavesInit
  /\ readerChapters \in [1..MaxRows -> ChapterKinds]
  /\ rows = <<>>
  /\ numbering = NoNumbering
  /\ clicks = 0

NextTitles ==
  \/ OpenTitleEditor /\ UNCHANGED offEditor
  \/ \E ok \in BOOLEAN, tgtLang \in TargetLanguages :
       AutoNumber(ok, tgtLang) /\ UNCHANGED offEditor

SpecTitles == InitTitles /\ [][NextTitles]_vars


\* ── Reader: retranslating the open chapter, one closure per request ────
offRetr == <<currentProjectId, polling, screen, reader, inflight, backend, sent,
             awaitJob, handed, shown, last, range, stepsBar, progressBar, ledger, marks,
             page, editor, saves>>

\* an answer of the backend: the chapter's entry as it is when the request is handled
RtAnswer(op, id, ok, row) ==
  IF ok THEN [op |-> op, id |-> id, ok |-> TRUE, status |-> row.status,
              version |-> row.version, by |-> row.by]
  ELSE [op |-> op, id |-> id, ok |-> FALSE, status |-> "none", version |-> 0, by |-> NoClosure]

\* btn-confirm-retranslate, up to the awaited POST .../retranslate; the backend
\* queues a job unless one is under way
ConfirmClick ==
  /\ ~btnDisabled /\ Len(rtPolls) < MaxRetranslations
  /\ rtPolls' = Append(rtPolls, [versionBefore |-> readerVersion, sawTranslating |-> FALSE,
                                 timer |-> "none"])
  /\ retranslatingChapterId' = 1
  /\ btnDisabled' = TRUE
  /\ \E ok \in BOOLEAN :
       /\ ok => rtJob.stage = "none"
       /\ rtJob' = IF ok THEN [id |-> Len(rtPolls) + 1, stage |-> "queued"] ELSE rtJob
       /\ rtAnswers' = rtAnswers \cup {RtAnswer("retranslate", Len(rtPolls) + 1, ok, chapterRow)}
  /\ UNCHANGED <<chapterRow, readerVersion, rtReport, rtRestores>>
  /\ UNCHANGED offRetr

\* ... then let sawTranslating = false; const timer = setInterval(...), or the catch block
RetranslatePosted(a) ==
  /\ a \in rtAnswers /\ a.op = "retranslate"
  /\ rtAnswers' = rtAnswers \ {a}
  /\ IF a.ok
       THEN /\ rtPolls' = [rtPolls EXCEPT ![a.id].timer = "on"]
            /\ UNCHANGED <<retranslatingChapterId, btnDisabled>>
       ELSE /\ retranslatingChapterId' = NoChapter
            /\ btnDisabled' = FALSE
            /\ UNCHANGED rtPolls
  /\ UNCHANGED <<chapterRow, rtJob, readerVersion, rtReport, rtRestores>>
  /\ UNCHANGED offRetr

\* the interval callback of closure i, up to the awaited GET of the chapter list
PollFire(i) ==
  /\ i \in DOMAIN rtPolls /\ rtPolls[i].timer = "on"
  /\ Cardinality({a \in rtAnswers : a.op = "chapters"}) < MaxInFlight
  /\ \E ok \in BOOLEAN : rtAnswers' = rtAnswers \cup {RtAnswer("chapters", i, ok, chapterRow)}
  /\ UNCHANGED <<chapterRow, rtJob, readerVersion, retranslatingChapterId, btnDisabled,
                 rtPolls, rtReport, rtRestores>>
  /\ UNCHANGED offRetr

\* what the callback of closure a.id makes of the list it is answered with
Verdict(a) ==
  LET sawTranslating == rtPolls[a.id].sawTranslating \/ a.status = "translating"
      versionChanged == a.version > rtPolls[a.id].versionBefore
  IN  IF ~a.ok THEN "none"
      ELSE IF a.status = "translated" /\ (sawTranslating \/ versionChanged) THEN "success"
      ELSE IF a.status = "pending" /\ sawTranslating THEN "failure"
      ELSE "none"

\* the rest of the callback (the chapter is in the list of its project)
PollApply(a) ==
  /\ a \in rtAnswers /\ a.op = "chapters"
  /\ rtAnswers' = rtAnswers \ {a}
  /\ IF Verdict(a) = "none"
       THEN /\ rtPolls' = [rtPolls EXCEPT ![a.id].sawTranslating =
                             @ \/ (a.ok /\ a.status = "translating")]
            /\ UNCHANGED <<readerVersion, retranslatingChapterId, btnDisabled, rtReport>>
       ELSE /\ rtPolls' = [rtPolls EXCEPT ![a.id].timer = "cleared"]
            /\ retranslatingChapterId' = NoChapter
            /\ btnDisabled' = FALSE
            /\ readerVersion' = IF Verdict(a) = "success" THEN a.version ELSE readerVersion
            /\ rtReport' = [id |-> a.id, result |-> Verdict(a), status |-> a.status,
                            version |-> a.version, by |-> a.by]
  /\ UNCHANGED <<chapterRow, rtJob, rtRestores>>
  /\ UNCHANGED offRetr

\* a ver-btn-restore button of the version list, up to the awaited POST
\* .../restore: the backend makes a copy of the version the current one
RestoreVersion ==
  /\ rtRestores < MaxRestores
  /\ rtRestores' = rtRestores + 1
  /\ \E ok \in BOOLEAN :
       /\ chapterRow' = IF ok THEN [status |-> "translated", version |-> chapterRow.version + 1,
                                    by |-> NoClosure]
                        ELSE chapterRow
       /\ rtAnswers' = rtAnswers \cup {RtAnswer("restore", NoClosure, ok, chapterRow')}
  /\ UNCHANGED <<rtJob, readerVersion, retranslatingChapterId, btnDisabled, rtPolls, rtReport>>
  /\ UNCHANGED offRetr

\* ... then the awaited GET of the chapter list, or the catch block
VersionRestored(a) ==
  /\ a \in rtAnswers /\ a.op = "restore"
  /\ IF a.ok
       THEN \E ok \in BOOLEAN :
              rtAnswers' = (rtAnswers \ {a}) \cup {RtAnswer("list", NoClosure, ok, chapterRow)}
       ELSE rtAnswers' = rtAnswers \ {a}
  /\ UNCHANGED <<chapterRow, rtJob, readerVersion, retranslatingChapterId, btnDisabled,
                 rtPolls, rtReport, rtRestores>>
  /\ UNCHANGED offRetr

\* ... then state.readerChapters = chapters, or the catch block
ListRefreshed(a) ==
  /\ a \in rtAnswers /\ a.op = "list"
  /\ rtAnswers' = rtAnswers \ {a}
  /\ readerVersion' = IF a.ok THEN a.version ELSE readerVersion
  /\ UNCHANGED <<chapterRow, rtJob, retranslatingChapterId, btnDisabled, rtPolls, rtReport,
                 rtRestores>>
  /\ UNCHANGED offRetr

\* the backend's job: the chapter is translating, then translated under the
\* next version number, or pending when the job fails
JobStarts ==
  /\ rtJob.stage = "queued"
  /\ rtJob' = [rtJob EXCEPT !.stage = "running"]
  /\ chapterRow' = [chapterRow EXCEPT !.status = "translating", !.by = rtJob.id]
  /\ UNCHANGED <<readerVersion, retranslatingChapterId, btnDisabled, rtPolls, rtAnswers,
                 rtReport, rtRestores>>
  /\ UNCHANGED offRetr

JobFinishes(ok) ==
  /\ rtJob.stage = "running"
  /\ rtJob' = NoRtJob
  /\ chapterRow' = IF ok THEN [status |-> "translated", version |-> chapterRow.version + 1,
                               by |-> rtJob.id]
                   ELSE [chapterRow EXCEPT !.status = "pending", !.by = rtJob.id]
  /\ UNCHANGED <<readerVersion, retranslatingChapterId, btnDisabled, rtPolls, rtAnswers,
                 rtReport, rtRestores>>
  /\ UNCHANGED offRetr

InitRetranslate ==
  /\ Loaded(1, "completed", "completed")
  /\ totalChapterCount = 0
  /\ RangeInit
  /\ AsideInit

NextRetranslate ==
  \/ ConfirmClick
  \/ \E a \in rtAnswers : RetranslatePosted(a)
  \/ \E i \in DOMAIN rtPolls : PollFire(i)
  \/ \E a \in rtAnswers : PollApply(a)
  \/ RestoreVersion
  \/ \E a \in rtAnswers : VersionRestored(a)
  \/ \E a \in rtAnswers : ListRefreshed(a)
  \/ JobStarts
  \/ \E ok \in BOOLEAN : JobFinishes(ok)

\* the GET of a tick of closure i is answered with the chapter list
ListSucceeds(i) ==
  /\ PollFire(i)
  /\ \E a \in rtAnswers' \ rtAnswers : a.ok

\* setInterval goes on calling the callback until clearInterval, every awaited
\* answer is handled, the backend's job goes on to its end, and the chapter
\* list is answered again and again
SpecRetranslate ==
  /\ InitRetranslate /\ [][NextRetranslate]_vars
  /\ WF_vars(\E a \in rtAnswers : RetranslatePosted(a))
  /\ WF_vars(\E a \in rtAnswers : PollApply(a))
  /\ WF_vars(JobStarts)
  /\ WF_vars(\E ok \in BOOLEAN : JobFinishes(ok))
  /\ \A i \in 1..MaxRetranslations : SF_vars(ListSucceeds(i))

\* ── Highlights: saves that are handled after the handler has returned ──
offSaves == <<currentProjectId, polling, screen, reader, inflight, backend, sent,
              awaitJob, handed, shown, last, range, stepsBar, progressBar, ledger, page,
              editor, retr>>

\* _saveHighlights() up to its awaited PUT: the request carries the whole list
SaveSent(list) ==
  /\ saveSeq < MaxSaves
  /\ saveSeq' = saveSeq + 1
  /\ puts' = puts \cup {[n |-> saveSeq + 1, list |-> list]}
  /\ UNCHANGED putOk

\* btn-add-highlight / btn-save-note
AddSaved ==
  /\ hlBar /\ pendingHighlightText # NoText
  /\ Len(currentHighlights) < MaxHighlights
  /\ currentHighlights' = Append(currentHighlights, pendingHighlightText)
  /\ SaveSent(currentHighlights')
  /\ hlBar' = FALSE
  /\ intended' = [intended EXCEPT ![readerCurrentChapterId] = @ \cup {pendingHighlightText}]
  /\ hlast' = [op |-> "add", ch |-> readerCurrentChapterId, text |-> pendingHighlightText]
  /\ UNCHANGED <<stored, readerCurrentChapterId, hload, pendingHighlightText>>
  /\ UNCHANGED offSaves

\* the remove button of the tooltip of the mark with data-hl-idx = i - 1
RemoveSaved(i) ==
  /\ i \in 1..Len(currentHighlights)
  /\ currentHighlights' = Spliced(currentHighlights, i)
  /\ SaveSent(currentHighlights')
  /\ intended' = [intended EXCEPT ![readerCurrentChapterId] = @ \ {currentHighlights[i]}]
  /\ hlast' = [op |-> "remove", ch |-> readerCurrentChapterId, text |-> currentHighlights[i]]
  /\ UNCHANGED <<stored, readerCurrentChapterId, hload, pendingHighlightText, hlBar>>
  /\ UNCHANGED offSaves

\* the backend handles one of the requests that are under way, in any order;
\* the awaiting _saveHighlights logs a failure and returns
PutHandled(r) ==
  /\ r \in puts
  /\ puts' = puts \ {r}
  /\ \E ok \in BOOLEAN :
       /\ stored' = IF ok THEN [stored EXCEPT ![readerCurrentChapterId] = r.list] ELSE stored
       /\ putOk' = IF ok THEN putOk \cup {r.n} ELSE putOk
  /\ UNCHANGED <<readerCurrentChapterId, currentHighlights, hload, pendingHighlightText,
                 hlBar, intended, hlast, saveSeq>>
  /\ UNCHANGED offSaves

InitSaves ==
  /\ Loaded(2, "stopped", "completed")
  /\ totalChapterCount = 0
  /\ RangeInit
  /\ AsideInit

NextSaves ==
  \/ \E text \in Texts : SelectText(text) /\ UNCHANGED <<saves, offSaves>>
  \/ AddSaved
  \/ \E i \in 1..MaxHighlights : RemoveSaved(i)
  \/ \E r \in puts : PutHandled(r)

SpecSaves == InitSaves /\ [][NextSaves]_vars

\* ── Opening a project while another one is polled or being opened ──────
\* project 1 is being analysed and project 2 translated; project 2 is open
\* and polled, or no project is open
InitOpen ==
  /\ \E open \in {NoProject, 2}, status1 \in {"analyzing", "analyzed"} :
       Loaded(open, status1, "translating")
  /\ totalChapterCount = 0
  /\ RangeInit
  /\ AsideInit

NextOpen ==
  \/ \E p \in Projects : OpenProject(p)
  \/ \E m \in Awaited : OpenApply(m)
  \/ \E t \in timers : TickFire(t)
  \/ \E m \in Awaited : TickApply(m)
  \/ \E p \in Projects : BackendFinish(p)

SpecOpen == InitOpen /\ [][NextOpen]_vars

\* ── Stopping a translation, with the interval that keeps firing ────────
\* the interval callback runs again: a tick of the status interval that fires
\* when the answer to the tick before it has been handled
PollTick(t) ==
  /\ t \in timers /\ t.kind = "status"
  /\ currentProjectId # NoProject
  /\ \A m \in Awaited : m.k # "tick"
  /\ \E ok \in BOOLEAN : Send(StatusAnswer("tick", "poll", currentProjectId, t.g, ok))
  /\ last' = Event("fire", NoMsg)
  /\ UNCHANGED <<range, aside>>
  /\ UNCHANGED <<currentProjectId, polling, screen, reader, backend, sent, awaitJob,
                 handed, shown>>

\* the tick's GET is answered with the project
PollSucceeds ==
  /\ \E t \in timers : PollTick(t)
  /\ \E m \in BagToSet(inflight') : m.k = "tick" /\ m.st # "fail"

\* project 2, which is being translated, is open on the translate panel
InitStop ==
  /\ Loaded(2, "stopped", "translating")
  /\ totalChapterCount = 0
  /\ RangeInit
  /\ AsideInit

NextStop ==
  \/ StopTranslate
  \/ \E m \in Awaited : StopApply(m)
  \/ \E t \in timers : PollTick(t)
  \/ \E m \in Awaited : TickApply(m)
  \/ \E p \in Projects : BackendFinish(p)

\* setInterval goes on calling the callback until clearInterval, every awaited
\* answer is handled, and the polls succeed again and again
SpecStop ==
  /\ InitStop /\ [][NextStop]_vars
  /\ WF_vars(\E m \in Awaited : TickApply(m))
  /\ WF_vars(\E m \in Awaited : StopApply(m))
  /\ SF_vars(PollSucceeds)

\* ── Refine and retranslate the sample, with ticks that overlap ─────────
\* number of answers of kind k that are under way
InFlight(k) == BagCardinality([m \in {x \in Awaited : x.k = k} |-> inflight[m]])

\* the interval callback of pollForRetranslate runs again, also while answers
\* to earlier ticks are under way
RetrTick(t) ==
  /\ t \in timers /\ t.kind = "retr"
  /\ currentProjectId # NoProject
  /\ InFlight("rtick") < MaxInFlight
  /\ \E ok \in BOOLEAN : Send(StatusAnswer("rtick", "poll", currentProjectId, t.g, ok))
  /\ last' = Event("fire", NoMsg)
  /\ UNCHANGED <<range, aside>>
  /\ UNCHANGED <<currentProjectId, polling, screen, reader, backend, sent, awaitJob,
                 handed, shown>>

\* the sample of project 1 is displayed
InitRefine ==
  /\ Loaded(1, "sample_ready", "translating")
  /\ totalChapterCount = 0
  /\ RangeInit
  /\ AsideInit

NextRefine ==
  \/ RefineAndRetranslate
  \/ \E m \in Awaited : PostApply(m)
  \/ \E t \in timers : RetrTick(t)
  \/ \E m \in Awaited : RetrApply(m)
  \/ \E t \in timers : PollTick(t)
  \/ \E m \in Awaited : TickApply(m)
  \/ \E p \in Projects : BackendFinish(p)

SpecRefine == InitRefine /\ [][NextRefine]_vars

\* ── Progress of a translation that this page did not start ─────────────
\* the page has loaded (state.translateRangeStart = 0, state.translateRangeEnd
\* = -1) while project 1 is being translated over a range that an earlier
\* startTranslation asked for
InitShown ==
  /\ Loaded(NoProject, "translating", "completed")
  /\ totalChapterCount = 0
  /\ translateRangeStart = 0
  /\ translateRangeEnd = -1
  /\ \E s \in ChapterIndexes, e \in ChapterIndexes : s <= e /\ job = [s |-> s, e |-> e]
  /\ reviewRange = <<<<>>, <<>>>>
  /\ chapters = [i \in ChapterIndexes |-> "pending"]
  /\ asked = NoBody
  /\ typed = NoInput
  /\ AsideInit

\* the tick that saw "translating" goes on to updateProgressUI
NextShown ==
  \/ \E p \in Projects : OpenProject(p)
  \/ \E m \in Awaited : OpenApply(m)
  \/ \E t \in timers : TickFire(t)
  \/ \E m \in Awaited : TickApply(m)
  \/ /\ currentProjectId = 1 /\ last.op = "tick" /\ last.m.st = "translating"
     /\ GetProgress /\ UNCHANGED offProgress
  \/ GetChapterFiles /\ UNCHANGED offProgress
  \/ ShowProgress /\ UNCHANGED offProgress
  \/ BackendChunk /\ UNCHANGED offProgress

SpecShown == InitShown /\ [][NextShown]_vars

\* ── Properties of the status polling ───────────────────────────────────
\* the step is the continuation of the handler that awaited answer m
Consumed(m) == m \in Awaited /\ inflight' = inflight (-) SetToBag({m})
TickStep(m) == Consumed(m) /\ m.k = "tick"

StopStatuses == {"analyzed", "strategy_generated", "sample_ready", "stopped", "completed", "error"}

\* C1: within one polling loop the display routine of a terminal status is
\* invoked exactly once: no tick of an interval hands off after a tick of the
\* same interval has already handed off, also when both status requests were
\* in flight at the same time.
HandoffOnce ==
  [][\A m \in Awaited : TickStep(m) /\ m.st \in StopStatuses => m.g \notin handed]_vars

\* C2: at most one interval that queries the backend is active at any time,
\* whichever of startPolling, pollForRetranslate, openProject and the reader's
\* retranslation created it.
OnePollingLoop == Cardinality(timers) <= 1

\* C3: the answer to a status request sent while project P was current is
\* discarded when P is no longer current: the tick changes no panel, calls no
\* display routine and does not stop polling.
StaleDiscarded ==
  [][\A m \in Awaited :
       TickStep(m) /\ m.p # currentProjectId => UNCHANGED <<polling, screen>>]_vars

\* C4: status observations of a project are applied in the order the backend
\* produced them: an answer older than the one a tick applied last for the
\* same project is not applied.
AppliedInOrder ==
  [][\A m \in Awaited :
       TickStep(m) /\ m.st # "fail" /\ m.p = shown.p /\ Rank(m) < shown.r
         => UNCHANGED <<polling, screen>>]_vars

\* C5: a tick whose status request failed leaves the poll timer as it is and
\* changes neither the panel, the phase views nor the current project.
FailedTickIgnored ==
  [][\A m \in Awaited :
       TickStep(m) /\ m.st = "fail"
         => UNCHANGED <<pollTimer, timers, panel, view, reviewIsStopped, reviewProj,
                        currentProjectId>>]_vars

\* a failed tick of the active status interval has run, and the interval is still active
FailedTickSeen ==
  /\ last.op = "tick" /\ last.m.st = "fail"
  /\ pollTimer # NoTimer /\ last.m.g = pollTimer
  /\ [g |-> pollTimer, kind |-> "status"] \in timers

\* C6: a status tick stops polling if and only if the status it observed is
\* analyzed, strategy_generated, sample_ready, stopped, completed or error; on
\* every other status the poll timer stays as it is.
StopsIffTerminal ==
  [][\A m \in Awaited :
       TickStep(m) /\ m.st # "fail"
         => IF m.st \in StopStatuses
              THEN pollTimer' = NoTimer /\ timers' = StoppedTimers
              ELSE UNCHANGED <<pollTimer, timers>>]_vars

\* a tick of the active interval has observed "error" and has stopped it
TickStoppedOnError ==
  /\ last.op = "tick" /\ last.m.st = "error"
  /\ pollTimer = NoTimer /\ \A t \in timers : t.g # last.m.g
  /\ shown.p = last.m.p

\* ── Properties of the job-starting handlers ────────────────────────────
\* the panels on which the control that starts `op` is shown
PrePanels(op) ==
  CASE op \in {"refine_analysis", "gen_strategy"} -> {"analysis"}
    [] op \in {"apply_template", "regen_strategy", "translate_sample"} -> {"strategy"}
    [] op = "refine_retranslate" -> {"sample"}
    [] op = "translate_all" -> {"sample", "review"}
    [] op = "resume" -> {"done"}
    [] OTHER -> {}

\* no other handler has run since the click that sent the start request m answers
JustClicked(m) == last.op = m.op \/ (last.op = "saved" /\ last.m.op = m.op)

\* C9: when the request that starts a job fails, the client ends in the phase
\* view it showed before the action, with the content visible and the loading
\* indicator hidden, and the action has started no polling.
FailedStartRollsBack ==
  [][\A m \in Awaited :
       Consumed(m) /\ m.k = "post" /\ m.st = "fail" /\ PrePanels(m.op) # {} /\ JustClicked(m)
         => /\ panel' \in PrePanels(m.op)
            /\ panel' \in Loadable => view'[panel'] = "content"
            /\ UNCHANGED polling]_vars

\* the client shows a phase as in progress
InProgressView == (panel \in Loadable /\ view[panel] = "loading") \/ panel = "translate"

\* C10: the client is in an in-progress phase only on a successful job start:
\* when the start request of the current project has failed, the client does
\* not show the phase as in progress; and a tick takes the client out of the
\* phase only with the terminal outcome of the job it is waiting for.
PhaseFollowsJob ==
  [][\A m \in Awaited :
       /\ Consumed(m) /\ m.k = "post" /\ m.op \in StartOps /\ m.st = "fail"
            /\ m.p = currentProjectId /\ JustClicked(m)
            => ~InProgressView'
       /\ TickStep(m) /\ InProgressView /\ ~InProgressView'
            => m.st \in StopStatuses /\ JobOf(m) = awaitJob]_vars

\* ── Properties of the chapter range ────────────────────────────────────
\* a translation of project 1 was stopped with chapters of its range left
StoppedMidRange ==
  /\ bstatus[1] = "stopped" /\ reviewIsStopped
  /\ job # NoRange /\ chapters[job.s] = "translated" /\ Todo # {}

\* the step is a click that continues the translation from the review or done panel
ContinueStep == panel \in {"review", "done"} /\ panel' = "translate" /\ sent' = sent + 1

\* C7: continuing a translation of range [start, end] that was stopped after
\* chapter k requests exactly the remaining range [k + 1, end].
ContinueRequestsRemaining ==
  [][StoppedMidRange /\ ContinueStep => asked' = [s |-> First(Todo), e |-> job.e]]_vars

\* the number an input shows, the empty input counting as 0
InputNum(v) == IF v = <<>> THEN 0 ELSE v[1]

\* C8: a call of startTranslation whose end input is below its start input
\* (0 and the empty input included) sends no request, starts no polling and
\* leaves the stored translate range and the displayed panel unchanged.
InvalidRangeRejected ==
  [][typed' # NoInput /\ InputNum(typed'[2]) < InputNum(typed'[1])
       => UNCHANGED <<inflight, sent, polling, panel, translateRangeStart,
                      translateRangeEnd>>]_vars

\* ── Properties of the error status ─────────────────────────────────────
\* C11: when the status of the current project is observed as error, by
\* openProject or by a poll tick, the client leaves the user in a phase view
\* that shows its content: it does not stay in an in-progress view.
ErrorRecovers ==
  [][\A m \in Awaited :
       Consumed(m) /\ m.k \in {"open", "tick"} /\ m.st = "error" /\ m.p = currentProjectId
         => ~InProgressView']_vars

\* ── Properties of the pipeline order ───────────────────────────────────
\* the place of a status in the pipeline; error, which a job of any phase can
\* end with, is placed with the last phase
PhaseIndex(st) ==
  CASE st = "uploaded" -> 0
    [] st = "analyzing" -> 1
    [] st = "analyzed" -> 2
    [] st = "generating_strategy" -> 3
    [] st = "strategy_generated" -> 4
    [] st = "translating_sample" -> 5
    [] st = "sample_ready" -> 6
    [] st = "translating" -> 7
    [] OTHER -> 8

\* the client sends the start request m in this step
StartSent(m) ==
  /\ m.k = "post" /\ m.op \in StartOps /\ m.p \in Projects
  /\ CopiesIn(m, inflight') > CopiesIn(m, inflight)

\* C12: every project is in one of the eleven statuses, and no start action
\* skips a phase: the client asks for a job of a project that has no job
\* running only when the project has reached the phase just before that job,
\* or a later one.
PipelineOrder ==
  [][/\ \A p \in Projects : bstatus'[p] \in Statuses
     /\ \A m \in BagToSet(inflight') :
          StartSent(m) /\ bstatus[m.p] \notin InProgress
            => PhaseIndex(JobStatus(m.op)) <= PhaseIndex(bstatus[m.p]) + 1]_vars

\* ── Properties of the steps bar ────────────────────────────────────────
\* C13: whatever panel showPanel has shown, a step ahead of it is marked done
\* only if it is review, reader or done and hasTranslatedChapters was true;
\* the steps between the current one and review are never marked.
AheadOnlyFromReview ==
  \A i \in StepIndexes :
    i > IndexOf(panel) /\ steps[i] # {}
      => /\ STEPS[i + 1] \in {"review", "reader", "done"}
         /\ hasTranslatedChapters
         /\ steps[i] = {"done"}

\* showPanel("analysis") with translated chapters: review is marked ahead,
\* strategy, sample and translate are not
ReviewMarkedAhead ==
  /\ panel = "analysis" /\ hasTranslatedChapters
  /\ steps[IndexOf("review")] = {"done"}
  /\ \A x \in {"strategy", "sample", "translate"} : steps[IndexOf(x)] = {}

\* ── Properties of the start requests ───────────────────────────────────
\* C14: the start requests of one project are serialized: the client sends
\* no start request for a project while the answer to an earlier start request
\* of that project is still awaited.
StartsSerialized ==
  [][\A m \in BagToSet(inflight') :
       StartSent(m)
         => \A m2 \in Awaited : ~(m2.k = "post" /\ m2.op \in StartOps /\ m2.p = m.p)]_vars

ProgressMonotone ==
  [][/\ bar'.pct >= bar.pct
     /\ bar'.pct \in 0..100
     /\ bar'.num <= (bar'.translated + 1) * bar'.den]_vars

\* ── Properties of the version history ──────────────────────────────────
\* the step in which the store handles the restore request of a click
RestoreHandled == vstage = NoStage /\ vstage'.stage = "posted"

\* C17: restore(v) of an existing version v appends a version numbered
\* max(existing) + 1 whose content is v's, moves the live pointer to it and
\* leaves v and every other version as it was; the new version is in the
\* ledger, so it can be restored in turn.
RestoreAppendsCopy ==
  [][RestoreHandled /\ vstage'.ok
       => LET v == vstage'.ver
              n == MaxVersion + 1
          IN  /\ v \in DOMAIN versions /\ n \notin DOMAIN versions
              /\ DOMAIN versions' = DOMAIN versions \cup {n}
              /\ versions'[n] = versions[v]
              /\ live' = n
              /\ \A k \in DOMAIN versions : versions'[k] = versions[k]]_vars

\* an older version has been restored as a new, live version, and that
\* version has been restored again
RestoredTwice ==
  /\ vlast.op = "restore" /\ live = vlast.new /\ vlast.new = vlast.ver + 1
  /\ versions[vlast.ver] # vlast.ver
  /\ versions[vlast.new] = versions[vlast.ver]

\* C18: every recordTranslation and every restore gives its version the
\* number max(existing) + 1, which no version has had; no version is
\* overwritten or removed.
VersionsAppendOnly ==
  [][versions' # versions
       => /\ MaxVersion + 1 \notin DOMAIN versions
          /\ DOMAIN versions' = DOMAIN versions \cup {MaxVersion + 1}
          /\ vlast'.new = MaxVersion + 1
          /\ \A k \in DOMAIN versions : versions'[k] = versions[k]]_vars

\* a translation was recorded after an older version had been restored
RecordedAfterRestore ==
  /\ vlast.op = "record" /\ live = vlast.new
  /\ \E k \in DOMAIN versions : versions[k] # k

\* C20: the restore of a version that the chapter does not have fails and
\* creates no version; the live pointer, the ledger, the chapter cached by the
\* client and the version list it displays stay as they were, also when the
\* handler has dealt with the failure.
MissingRestoreFails ==
  [][/\ RestoreHandled /\ vstage'.ver \notin DOMAIN versions
          => ~vstage'.ok /\ UNCHANGED <<versions, live, cachedVer, listed>>
     /\ vstage.stage = "posted" /\ ~vstage.ok /\ vstage' # vstage
          => UNCHANGED <<versions, live, cachedVer, listed>>]_vars

\* the restore of a version deleted upstream has failed and the handler has
\* alerted the failure
MissingRestoreFailed ==
  /\ vlast.op = "norestore" /\ vlast.ver \notin DOMAIN versions
  /\ vstage = NoStage
  /\ vlast.ver \in listed

\* C21: the chapter has exactly one current version, the live one, and the
\* version list that the client renders marks exactly that version as
\* current: when the ledger is as the list request found it, the list offers
\* restore on every other version and on no other.
ListMarksLive ==
  [][/\ live' \in DOMAIN versions'
     /\ vstage.stage = "list" /\ vstage.ok /\ vstage' = NoStage
          /\ vstage.vers = DOMAIN versions
          => listed' = DOMAIN versions \ {live}]_vars

\* ── Properties of the highlights ───────────────────────────────────────
\* C22: the highlights stored for a chapter change only by an add or a remove
\* of the user on that chapter: no step drops a stored highlight other than
\* the one the user removes from the chapter in that step, and no step stores
\* a highlight that the user has not added to the chapter.
HighlightsFrame ==
  [][\A c \in ReaderChapters :
       /\ Elements(stored[c]) \ Elements(stored'[c])
            \subseteq (IF hlast'.op = "remove" /\ hlast'.ch = c THEN {hlast'.text} ELSE {})
       /\ Elements(stored'[c]) \ Elements(stored[c]) \subseteq intended'[c]]_vars

\* ── Properties of the overlay ──────────────────────────────────────────
\* a <mark> opens at a position where an earlier <mark> is not yet closed
Nested(html) ==
  \E t \in Occurrences(html, MarkOpen) :
    Cardinality({j \in Occurrences(html, MarkOpen) : j < t})
      > Cardinality({j \in Occurrences(html, MarkClose) : j < t})

\* taking the markers out of the pane gives back the rendered text
TextIntact == Unwrapped(transHtml, MarkOpen) = TextToHtml(transText, transTitle)

\* the strings of the list differ from one another
Distinct(list) == \A i, j \in 1..Len(list) : list[i] = list[j] => i = j

\* C23: over distinct highlights alone (no annotation is in the list) that
\* left the text intact, whatever the strings and their order, no marker in
\* the pane is nested in another marker: a string that occurs inside a longer
\* one is not wrapped again inside the region marked for the longer one.
NoNestedMarker ==
  (hload = NoLoad /\ currentAnnotations = <<>> /\ Distinct(currentHighlights) /\ TextIntact)
    => ~Nested(transHtml)

\* C24: the markers are put around text only: taking the markers out of the
\* pane gives back the rendered text, character for character, so no tag,
\* attribute or character entity was matched or altered.
MarkersAroundTextOnly ==
  (hload = NoLoad /\ transHtml # <<>>) => TextIntact

\* C25: a highlight or an annotation whose string is empty or one character
\* long has no marker in the pane, at whatever position of its list it is.
ShortNeverMarked ==
  /\ \A i \in 1..Len(currentHighlights) :
       Len(currentHighlights[i]) < 2 => ~Contains(transHtml, UserMarkOpen(i - 1))
  /\ \A i \in 1..Len(currentAnnotations) :
       Len(currentAnnotations[i]) < 2 => ~Contains(transHtml, AnnMarkOpen(i - 1))

\* a short string is in one of the lists of a pane that carries markers
ShortAmongMarked ==
  /\ hload = NoLoad /\ Contains(transHtml, MarkOpen)
  /\ \/ \E i \in 1..Len(currentHighlights) : Len(currentHighlights[i]) < 2
     \/ \E i \in 1..Len(currentAnnotations) : Len(currentAnnotations[i]) < 2

\* C26: the pane is a function of the text, the title, the lists and the box:
\* after every redoing of the overlay that left the text intact, it is what
\* loadReaderChapter renders from the same text, title and lists.
RenderRepeatable ==
  (hload = NoLoad /\ transHtml # <<>> /\ TextIntact)
    => transHtml = Overlaid(TextToHtml(transText, transTitle), currentHighlights,
                            currentAnnotations, showAnnotations)

\* ── Properties of textToHtml ───────────────────────────────────────────
\* the pane is filled from a text whose first paragraph is the title
FirstParagraphIsTitle ==
  /\ transHtml # <<>> /\ transTitle # <<>>
  /\ Paragraphs(transText) # <<>> /\ Paragraphs(transText)[1] = transTitle

\* C27: when the first paragraph of the text is the non-empty title verbatim,
\* the output starts with the title as the chapter heading, holds that
\* heading once, and holds one paragraph, heading or separator segment for
\* each paragraph but the first.
TitleNotRepeated ==
  FirstParagraphIsTitle
    => /\ StartsAt(transHtml, H1Open \o Escape(transTitle) \o H1Close, 1)
       /\ Count(transHtml, <<"<", "h", "1">>) = 1
       /\ Count(transHtml, <<"<", "p">>) + Count(transHtml, H2Open)
            = Len(Paragraphs(transText)) - 1

\* ... and the text has a second paragraph
TitleThenBody == FirstParagraphIsTitle /\ Len(Paragraphs(transText)) = 2

\* ── Properties of the numbering of titles ──────────────────────────────
\* the step is a click on btn-auto-number that numbers the rows in the mode
NumberedIn(mode) ==
  clicks' = clicks + 1 /\ numbering'.confirmed /\ numbering'.mode = mode

ChapterLabel(n) == <<"C", "h", "a", "p", "t", "e", "r", " ">> \o IndexString(n) \o <<":", " ">>
PartLabel(n) == <<"P", "a", "r", "t", " ">> \o IndexString(n) \o <<":", " ">>

\* C28: a numbering in continuous mode gives the k-th body chapter of the
\* editor, in document order, the number k, whatever part dividers lie
\* between the body chapters, and leaves the rows of front matter and of back
\* matter as they were.
ContinuousNumbering ==
  [][NumberedIn("continuous")
       => \A k \in 1..Len(rows) :
            /\ rows[k].ctype = "chapter"
                 => StartsAt(rows'[k].orig,
                             ChapterLabel(Cardinality({j \in 1..k : rows[j].ctype = "chapter"})),
                             1)
            /\ rows[k].ctype \in {"frontmatter", "backmatter"} => rows'[k] = rows[k]]_vars

\* body chapters on both sides of a part divider were numbered in continuous mode
ContinuousAcrossPart ==
  /\ clicks > 0 /\ numbering = [mode |-> "continuous", confirmed |-> TRUE]
  /\ \E i, p, j \in 1..Len(rows) :
       /\ i < p /\ p < j
       /\ rows[i].ctype = "chapter" /\ rows[p].ctype = "part" /\ rows[j].ctype = "chapter"

\* chapter k is a body chapter that carries a number
NumberedBody(chs, k) == TypeOf(chs[k]) = "chapter" /\ chs[k].body_number # NoNumber

\* a numbered body chapter does not exceed the numbered body chapter before
\* it, and a part divider lies between the two
RestartAfterPart(chs) ==
  \E i, j \in 1..Len(chs) :
    /\ i < j /\ NumberedBody(chs, i) /\ NumberedBody(chs, j)
    /\ \A m \in (i + 1)..(j - 1) : ~NumberedBody(chs, m)
    /\ chs[j].body_number <= chs[i].body_number
    /\ \E m \in (i + 1)..(j - 1) : TypeOf(chs[m]) = "part"

\* C29: a click on btn-auto-number detects per-part mode exactly when a
\* numbered body chapter does not exceed the previous numbered body chapter
\* across a part divider, and continuous mode otherwise; the rows change only
\* when the user has confirmed the detected mode.
ModeDetected ==
  [][clicks' = clicks + 1
       => /\ numbering'.mode = (IF RestartAfterPart(readerChapters) THEN "per_part"
                                                                     ELSE "continuous")
          /\ ~numbering'.confirmed => rows' = rows]_vars

\* per-part mode was detected where the number after the part divider equals
\* the number before it
PerPartDetected ==
  /\ clicks > 0 /\ numbering.mode = "per_part"
  /\ \E i, j \in 1..Len(readerChapters) :
       /\ i < j /\ NumberedBody(readerChapters, i) /\ NumberedBody(readerChapters, j)
       /\ readerChapters[i].body_number = readerChapters[j].body_number

RetranslateVerdict ==
  [][\A a \in rtAnswers : PollApply(a) /\ Verdict(a) # "none" =>
        /\ Verdict(a) = "success" =>
             /\ a.status = "translated"
             /\ rtPolls[a.id].sawTranslating \/ a.version > rtPolls[a.id].versionBefore
        /\ Verdict(a) = "failure" => a.status = "pending" /\ rtPolls[a.id].sawTranslating
        /\ a.by = a.id]_vars
\* the interval of request i: "none", "on" or "cleared"
TimerOf(i) == IF i \in DOMAIN rtPolls THEN rtPolls[i].timer ELSE "none"

\* C32: once a retranslate request is accepted (its interval runs), the poll
\* eventually stops with retranslatingChapterId cleared and the retranslate
\* button enabled, whether or not a poll observes the translating status.
RetranslateEnds ==
  \A i \in 1..MaxRetranslations :
    TimerOf(i) = "on"
      ~> (TimerOf(i) = "cleared" /\ retranslatingChapterId = NoChapter /\ ~btnDisabled)
\* ── Properties of the saved highlights ─────────────────────────────────
\* C33: once every save request of the chapter has been handled, the last of
\* them with success, the list the backend stores for the chapter is the
\* client's current list, in whatever order the requests were handled and
\* whether or not an earlier save failed.
SavedListIsCurrent ==
  puts = {} /\ saveSeq >= 1 /\ saveSeq \in putOk
    => stored[readerCurrentChapterId] = currentHighlights
\* ── Properties of opening a project ────────────────────────────────────
\* C34: the polling loop that is active for the current project stays active
\* until one of its own ticks observes a terminal status: a late tick of an
\* earlier loop, sent while another project was current, does not cancel it.
NewLoopSurvivesLateTick ==
  [][\A m \in Awaited :
       TickStep(m) /\ pollTimer # NoTimer /\ m.g # pollTimer /\ m.p # currentProjectId
         => pollTimer' = pollTimer /\ timers' = timers]_vars
\* C35: when no project is current (after New project, Home, or deleting the
\* current project) no poll timer is active: an active poll timer implies a
\* current project.
TimerImpliesProject ==
  pollTimer # NoTimer => currentProjectId # NoProject
\* C38: when openProject has been called for one project and then for
\* another, the display and the polling that the answer about the current
\* project produced are what remains once every request is answered: an
\* answer about the project opened first that arrives last changes neither.
OpenedIsCurrent ==
  [][\A m \in Awaited :
       /\ Consumed(m) /\ m.k = "open" /\ m.st # "fail" /\ inflight' = EmptyBag
       /\ last.op = "opened" /\ last.m.st # "fail" /\ last.m.p = currentProjectId
       => m.p = currentProjectId \/ UNCHANGED <<polling, screen>>]_vars
\* ── Properties of refine and retranslate ───────────────────────────────
\* C36: each accepted refinement leads to exactly one translate/sample
\* request, issued after a poll has observed strategy_generated: the tick
\* that issues it belongs to the loop that is active, which it stops, so that
\* an overlapping tick of the same loop does not issue the request again.
SampleRequestedOnce ==
  [][\A m \in Awaited :
       RetrApply(m) /\ m.st = "strategy_generated" => pollTimer = m.g]_vars
\* ── Properties of the displayed range ──────────────────────────────────
\* C37: whenever updateProgressUI displays the progress of a translation, the
\* chapter range it counts over (translateRangeStart..translateRangeEnd, an
\* end of -1 standing for the last chapter) is the range of the translation
\* job that runs for the current project.
ShownRangeIsJobRange ==
  [][held.stage = "files" /\ held.files # NoFiles /\ held' = NoHeld
       => /\ translateRangeStart = job.s
          /\ (IF translateRangeEnd >= 0 THEN translateRangeEnd ELSE NumChapters - 1) = job.e]_vars

\* two strings overlap when one holds the other or an end of one is a start
\* of the other; the empty string overlaps nothing
Overlap(p, q) ==
  /\ p # <<>> /\ q # <<>>
  /\ \/ Contains(p, q) \/ Contains(q, p)
     \/ \E n \in 1..Len(p) :
          n <= Len(q) /\ (\/ SubSeq(p, Len(p) - n + 1, Len(p)) = SubSeq(q, 1, n)
                          \/ SubSeq(q, Len(q) - n + 1, Len(q)) = SubSeq(p, 1, n))

\* no string of the two lists overlaps another one of them
NonOverlapping ==
  LET all == currentHighlights \o currentAnnotations
  IN  \A i, j \in 1..Len(all) : i # j => ~Overlap(all[i], all[j])

\* the number of opening tags open in the pane, for the occurrences of str in
\* the rendered text
MarkedTimes(open, str) ==
  [tags |-> Cardinality(Occurrences(transHtml, open)),
   found |-> Cardinality(Occurrences(TextToHtml(transText, transTitle), str))]

\* C39: when the strings of the highlights and of the annotations do not
\* overlap one another, then after every load, add, remove and toggle each
\* occurrence of a highlight carries one marker of that highlight, and each
\* occurrence of an annotation carries one marker of that annotation when
\* the box is checked and none when it is not.
EveryOccurrenceMarkedOnce ==
  (hload = NoLoad /\ transHtml # <<>> /\ TextIntact /\ NonOverlapping) =>
    /\ \A i \in 1..Len(currentHighlights) :
         Len(currentHighlights[i]) >= 2 =>
           LET n == MarkedTimes(UserMarkOpen(i - 1), currentHighlights[i])
           IN  n.tags = n.found
    /\ \A i \in 1..Len(currentAnnotations) :
         Len(currentAnnotations[i]) >= 2 =>
           LET n == MarkedTimes(AnnMarkOpen(i - 1), currentAnnotations[i])
           IN  n.tags = IF showAnnotations THEN n.found ELSE 0

\* C40: numbering is idempotent for every target language: numbering the rows
\* that a click on btn-auto-number has numbered, in the same mode and for the
\* same language, leaves their original and translated titles as they are.
AutoNumberIdempotent ==
  [][\A tgtLang \in TargetLanguages :
       AutoNumber(TRUE, tgtLang)
         => rows' = [k \in 1..Len(rows') |->
                       Numbered(rows', k, DetectedMode(readerChapters), tgtLang)]]_vars

====
